---------------------------- MODULE Spec2Model ----------------------------
(***************************************************************************)
(* usrpkg-builder: the mirroring pass of src/index.js over the mirror-mode *)
(* fetchPackage of src/mirror/fetchAppstream.js (pull, resolve, promote,   *)
(* clean up) and the catalog generation of src/ostree/ostreeManager.js.    *)
(*                                                                         *)
(* Strings the code builds and matches (refs, paths, file contents) are    *)
(* sequences of tokens: template literals are concatenations, and          *)
(* String.includes / endsWith / trim are computed on the sequences.        *)
(***************************************************************************)
EXTENDS Integers, Sequences, FiniteSets, TLC

\* ------------------------------------------------------------------ bounds
\* Number of successive upstream versions of a ref a pull may see.
MaxVersions == 2
\* Number of faults the environment injects into one pass (a failed pull, a
\* damaged deposit, a failed scan, a rejected ref write, a failed unlink or
\* ref delete).
MaxFaults == 2

\* Number of faults the environment injects into one createSummary when it
\* is run on its own: every operation of it can fail.
MaxReconcileFaults == 7

\* index.js:36  components.slice(0, 3)
SliceCap == 3

\* Number of times initRepo is run on the same store.
MaxInitRuns == 2

\* Upper bound on the number of refs a remote lists.
MaxListed == 5

\* ---------------------------------------------------------- string helpers
WhiteSpace == {" ", "\n"}

RECURSIVE TrimStart(_)
TrimStart(s) ==
  IF s # <<>> /\ Head(s) \in WhiteSpace THEN TrimStart(Tail(s)) ELSE s

RECURSIVE TrimEnd(_)
TrimEnd(s) ==
  IF s # <<>> /\ s[Len(s)] \in WhiteSpace
  THEN TrimEnd(SubSeq(s, 1, Len(s) - 1))
  ELSE s

\* String.prototype.trim
Trim(s) == TrimStart(TrimEnd(s))

\* String.prototype.endsWith
EndsWith(s, t) ==
  /\ Len(t) <= Len(s)
  /\ SubSeq(s, Len(s) - Len(t) + 1, Len(s)) = t

\* String.prototype.includes
Includes(s, t) ==
  \E i \in 1..(Len(s) + 1) :
    /\ i + Len(t) - 1 <= Len(s)
    /\ SubSeq(s, i, i + Len(t) - 1) = t

\* JavaScript truthiness of a string-or-null: null and "" are both falsy.
\* The empty sequence stands for both.
Truthy(s) == s # <<>>
Null == <<>>

\* Array.prototype.slice(0, n)
Slice(s, n) == SubSeq(s, 1, IF Len(s) < n THEN Len(s) ELSE n)

\* A function without one key, and with one key set.
Without(f, k) == [x \in DOMAIN f \ {k} |-> f[x]]
With(f, k, v) == [x \in DOMAIN f \cup {k} |-> IF x = k THEN v ELSE f[x]]

\* ------------------------------------------------------------------ inputs
\* The commit hash of version v of ref `app` on remote `repo`: opaque, and
\* different for different contents.
VersionTag(v) == <<"v1", "v2", "v3", "v4">>[v]
CommitOf(repo, app, v) == <<"commit:", repo, ":", VersionTag(v), ":">> \o app

NoBundle == [type |-> "none", runtime |-> "", sdk |-> ""]

\* Components of a remote catalog (component.id[0], component.bundle[0].$).
CompA == [id |-> "A", bundle |-> [type |-> "flatpak", runtime |-> "", sdk |-> ""]]
CompB == [id |-> "B", bundle |-> [type |-> "flatpak", runtime |-> "R/x86_64/46", sdk |-> "S/x86_64/46"]]
CompC == [id |-> "C", bundle |-> [type |-> "tarball", runtime |-> "R/x86_64/46", sdk |-> ""]]
CompD == [id |-> "D", bundle |-> NoBundle]
\* An app whose id has "appstream" in it (such as
\* org.freedesktop.appstream.cli), reduced to that part of the id.
CompE == [id |-> "appstream", bundle |-> [type |-> "flatpak", runtime |-> "", sdk |-> ""]]

\* The catalogs a remote may serve.
Catalogs ==
  { <<>>, <<CompA>>, <<CompB>>, <<CompD>>, <<CompC, CompC>>, <<CompD, CompA>>,
    <<CompA, CompD, CompC, CompB>> }

\* config.repo_remotes (names)
Configs == { <<"flathub">>, <<"flathub", "fedora">> }


\* -------------------------------------------------------------------- refs
\* index.js:58   `app/${appId}/x86_64/stable`
AppRef(appId) == <<"app/", appId, "/x86_64/stable">>
\* index.js:73   "runtime/" + runtime
RuntimeRef(runtime) == <<"runtime/", runtime>>

\* fetchAppstream.js:156  path.join(repoPath, "refs/mirrors")
MirrorsDirPath == <<"refs/mirrors/">>
UnderMirrors(p) == Len(p) >= 1 /\ Head(p) = "refs/mirrors/"
\* path.relative(mirrorsDir, filePath) of a file below mirrorsDir
Relative(p) == Tail(p)

\* fetchAppstream.js:242-247  knownPaths, in the listed order
KnownPaths(repo, app) ==
  << <<"refs/mirrors/", "org.", repo, ".Stable/">> \o app,
     <<"refs/mirrors/", repo, ".Stable/">> \o app,
     <<"refs/mirrors/", repo, "/">> \o app,
     <<repo, ":">> \o app >>

\* fetchAppstream.js:185-192  possibleMirrorPaths
PossibleMirrorPaths(repo, app) ==
  << <<"refs/mirrors/", "org.", repo, ".Stable/">> \o app,
     <<"refs/mirrors/", repo, ".Stable/">> \o app,
     <<"refs/mirrors/", repo, "/">> \o app,
     <<repo, ":">> \o app >>

\* fetchAppstream.js:268  [`${repo}:${app}`, app]
RefSpecs(repo, app) == << <<repo, ":">> \o app, app >>

\* A transient location no candidate list names: a collection-id directory
\* that is not derived from the remote's name.
CollectionPath(repo, app) == <<"refs/mirrors/", "org.example.", repo, "/">> \o app

\* The transient layouts of a store: where its mirror-mode pull leaves the
\* pulled ref: in a ref file at one of the known paths or below a collection
\* directory, as the remote's ref (refs/remotes), or nowhere. The layout
\* depends on the store's version and configuration (collection ids or
\* not), so it is the same for every pull of a pass.
FileLayouts == {"known1", "known2", "known3", "known4", "collection"}
Layouts == FileLayouts \cup {"remote", "none"}
DepositPath(layout, repo, app) ==
  CASE layout = "known1" -> KnownPaths(repo, app)[1]
    [] layout = "known2" -> KnownPaths(repo, app)[2]
    [] layout = "known3" -> KnownPaths(repo, app)[3]
    [] layout = "known4" -> KnownPaths(repo, app)[4]
    [] layout = "collection" -> CollectionPath(repo, app)

\* A directory entry: a regular file with its bytes, or a directory.
RegularFile(data) == [isFile |-> TRUE, data |-> data]
Directory == [isFile |-> FALSE, data |-> <<>>]
\* The ref file a pull writes: the commit and a newline.
RefFile(c) == RegularFile(c \o <<"\n">>)
\* What a damaged deposit leaves instead: an empty (truncated) file, or a
\* directory in the file's place.
DamagedEntries == {RegularFile(<<>>), Directory}

\* fetchAppstream.js:166-171  the predicate of the recursive scan
\* (app.replace(/\//g, path.sep) is app itself where path.sep is "/").
MatchesApp(p, app) ==
  LET relative == Relative(p)
  IN  EndsWith(relative, app) \/ Includes(relative, app)

\* fetchAppstream.js:130-149  files below refs/mirrors accepted by the scan;
\* readdir order is unspecified, so any of them can be files[0].
FindFilesRecursive(fs, app) ==
  {p \in DOMAIN fs : UnderMirrors(p) /\ fs[p].isFile /\ MatchesApp(p, app)}

\* fetchAppstream.js:249-263  index of the first known path that exists and
\* is a regular file (0 when none): stat failing or !isFile() moves on.
RECURSIVE FirstKnownFile(_, _, _)
FirstKnownFile(fs, paths, i) ==
  IF i > Len(paths) THEN 0
  ELSE IF paths[i] \in DOMAIN fs /\ fs[paths[i]].isFile THEN i
  ELSE FirstKnownFile(fs, paths, i + 1)

\* ostree rev-parse --repo=... <refSpec>: `remote:ref` names the remote's
\* ref, a bare ref names the local ref. <<>> is the command failing.
RevParse(local, remote, refSpec) ==
  IF Len(refSpec) >= 2 /\ refSpec[2] = ":"
  THEN LET key == <<refSpec[1], SubSeq(refSpec, 3, Len(refSpec))>>
       IN  IF key \in DOMAIN remote THEN remote[key] ELSE Null
  ELSE IF refSpec \in DOMAIN local THEN local[refSpec] ELSE Null

\* fetchAppstream.js:268-281  index of the first ref-spec rev-parse
\* resolves (0 when both fail).
RECURSIVE FirstRevParse(_, _, _, _)
FirstRevParse(local, remote, specs, i) ==
  IF i > Len(specs) THEN 0
  ELSE IF RevParse(local, remote, specs[i]) # Null THEN i
  ELSE FirstRevParse(local, remote, specs, i + 1)

\* Mutant: rev-parse runs whatever the earlier strategies found.
NeedsRevParse_Always(commit) == TRUE

\* fetchAppstream.js:267  if (!commit)
NeedsRevParse(commit) == ~Truthy(commit)

\* Mutant: a missing refs/mirrors skips the known paths.
ProbesKnownPaths_OnlyAfterScan(mirroredRefPath, mirrorsExists) ==
  mirroredRefPath = Null /\ mirrorsExists

\* fetchAppstream.js:235,240  the known paths are probed when the scan
\* returned no path (also when refs/mirrors does not exist).
ProbesKnownPaths(mirroredRefPath, mirrorsExists) == mirroredRefPath = Null

\* ostree refs --create=<name> <commit> [--force]: without --force an
\* existing ref is an error; accepted is the store taking the write.
CreateRef(local, name, commit, force, accepted) ==
  IF ~accepted \/ (name \in DOMAIN local /\ ~force)
  THEN [ok |-> FALSE, refs |-> local]
  ELSE [ok |-> TRUE, refs |-> With(local, name, commit)]

\* Mutant: a rejected write rolls the ref back: the ref is deleted.
PromoteRef_RollbackOnFailure(local, app, commit, accepted) ==
  IF accepted
  THEN CreateRef(local, app, commit, TRUE, accepted)
  ELSE [ok |-> FALSE, refs |-> Without(local, app)]

\* Mutant: the create is not forced.
PromoteRef_NoForce(local, app, commit, accepted) ==
  CreateRef(local, app, commit, FALSE, accepted)

\* fetchAppstream.js:290-292  --create=${localRef} ${commit} --force
PromoteRef(local, app, commit, accepted) ==
  CreateRef(local, app, commit, TRUE, accepted)

\* fetchAppstream.js:195-205  unlink of each possible path that includes
\* "refs/mirrors/"; failing is the set of indexes whose unlink fails for a
\* reason of its own. A missing file or a directory fails too; every
\* failure is ignored.
UnlinkRemoves(fs, paths, failing) ==
  {paths[i] : i \in {j \in 1..Len(paths) :
      /\ Includes(paths[j], MirrorsDirPath)
      /\ paths[j] \in DOMAIN fs
      /\ fs[paths[j]].isFile
      /\ j \notin failing}}

CleanupFiles(fs, paths, failing) ==
  [p \in DOMAIN fs \ UnlinkRemoves(fs, paths, failing) |-> fs[p]]

\* Mutant: the delete names the bare ref.
DeleteTarget_LocalRef(repo, app) == app

\* fetchAppstream.js:209  ostree refs --delete ${repo}:${app}
DeleteTarget(repo, app) == <<repo, ":">> \o app

\* ostree refs --delete <refSpec>: removes the named ref.
DeleteRef(local, remote, refSpec, ok) ==
  IF ~ok THEN [local |-> local, remote |-> remote]
  ELSE IF Len(refSpec) >= 2 /\ refSpec[2] = ":"
  THEN [local |-> local,
        remote |-> Without(remote, <<refSpec[1], SubSeq(refSpec, 3, Len(refSpec))>>)]
  ELSE [local |-> Without(local, refSpec), remote |-> remote]

\* Mutant: the store-level delete is not wrapped in a try.
CleanupThrows_DeleteUncaught(unlinkFailed, deleteFailed) == deleteFailed

\* fetchAppstream.js:198-203, 208-212  both try blocks swallow the error:
\* cleanupMirroredRefs never throws.
CleanupThrows(unlinkFailed, deleteFailed) == FALSE


\* --------------------------------------------- createSummary and its steps
\* ostreeManager.js:201 and part_000:205  the two catalog refs
CatalogRefNames ==
  << <<"appstream", "/x86_64">>, <<"appstream", "2", "/x86_64">> >>

\* ostreeManager.js:236-243  the metadata keys, in the order of the array
MetadataKeys == <<"xa.title", "xa.comment", "xa.homepage">>

\* The two versions of the ostree manager module in the repository:
\* src/ostree/ostreeManager.js and src/unnamed/part_000. They are the same up
\* to generateAppstream and differ from createSummary on.
Managers == {"ostreeManager", "part_000"}

\* ostree commit --branch=<ref> <activeDir>: the commit of the staged tree
\* on a branch that does not exist yet.
TreeCommit(catalog) ==
  <<"commit:", "tree:">> \o
    [k \in 1..Len(catalog.components) |-> catalog.components[k].id]

\* ostreeManager.js:204 and part_000:208  ostree commit --branch=<ref> without
\* --skip-if-unchanged: a new commit object is written every time, and when
\* the branch exists its head is the new commit's parent, so its checksum is
\* a new one even for an unchanged tree.
CommitTo(local, ref, catalog) ==
  IF ref \in DOMAIN local
  THEN TreeCommit(catalog) \o <<"parent:">> \o local[ref]
  ELSE TreeCommit(catalog)

\* The commit flatpak build-update-repo makes of the catalog it generates.
GeneratedCommit == <<"commit:", "build-update-repo">>

\* ostreeManager.js:150 against part_000:153  --no-update-appstream
UpdatesAppstream(m) == m = "ostreeManager"

\* flatpak build-update-repo: commits the catalog refs unless told not to.
BuildUpdateRepo(local, updateAppstream) ==
  IF updateAppstream
  THEN With(With(local, CatalogRefNames[1], GeneratedCommit),
            CatalogRefNames[2], GeneratedCommit)
  ELSE local

\* ostree refs --repo=...: local refs by name, remote refs as remote:ref.
ListRefs(local, remote) ==
  DOMAIN local \cup {<<r[1], ":">> \o r[2] : r \in DOMAIN remote}

NoSummary == [present |-> FALSE, refs |-> {}, keys |-> {}]

\* ostree summary -u: the summary is rebuilt over the refs of the store.
UpdatedSummary(old, local, remote) ==
  [present |-> TRUE, refs |-> ListRefs(local, remote), keys |-> old.keys]

NotVerified == [ran |-> FALSE, listed |-> FALSE, ok |-> FALSE, missing |-> {}]

\* part_000:270-287  what verifyAppstreamRefs reports of a ref list
VerifyReport(refs) ==
  LET appstreamRefs == {r \in refs : Includes(r, <<"appstream">>)}
  IN  IF Cardinality(appstreamRefs) >= 2
      THEN [ran |-> TRUE, listed |-> TRUE, ok |-> TRUE, missing |-> {}]
      ELSE [ran |-> TRUE, listed |-> TRUE, ok |-> FALSE,
            missing |-> {k \in 1..2 : CatalogRefNames[k] \notin appstreamRefs}]

\* part_000:288-290  the listing failed: a warning
VerifyUnlisted == [ran |-> TRUE, listed |-> FALSE, ok |-> FALSE, missing |-> {}]

\* One store operation of createSummary: stage A (build-update-repo), B (the
\* commit of catalog ref `item`), C (summary -u), K (metadata key `item`),
\* V (the ref listing of the verification); R is the read of the active
\* directory that precedes the commits.
StageEntry(stage, item, ok) == [stage |-> stage, item |-> item, ok |-> ok]

\* Mutant: the manual steps run whatever build-update-repo did.
FallsBack_Always(okA) == TRUE

\* ostreeManager.js:152, 180-184 and part_000:155, 178-182  the catch around
\* build-update-repo is the only way into the fallback
FallsBack(okA) == ~okA

\* Mutant: a failed commit ends the loop over the refs.
NextRef_StopOnFailure(idx, ok) == IF ok THEN idx + 1 ELSE Len(CatalogRefNames) + 1

\* ostreeManager.js:203-211  the try/catch is inside the loop: next ref
NextRef(idx, ok) == idx + 1

\* Mutant: a failed key ends the loop over the keys.
NextKey_StopOnFailure(idx, ok) == IF ok THEN idx + 1 ELSE Len(MetadataKeys) + 1

\* ostreeManager.js:245-254  the try/catch is inside the loop: next key
NextKey(idx, ok) == idx + 1

\* Where createSummary goes after each of its steps, in each version.
\* ostreeManager.js:143-231: A; on failure B, C, keys.
\* part_000:143-186: B; A; on failure C, keys; then the verification.
FirstStage(m) == IF m = "ostreeManager" THEN "stageA" ELSE "stageB"

\* Mutant: ostreeManager.js commits the catalog refs after a successful
\* build-update-repo as well.
AfterStageA_ThenCommits(m, okA) ==
  IF m = "ostreeManager" THEN "stageB"
  ELSE IF FallsBack(okA) THEN "stageC" ELSE "verify"

AfterStageA(m, okA) ==
  IF FallsBack(okA)
  THEN IF m = "ostreeManager" THEN "stageB" ELSE "stageC"
  ELSE IF m = "ostreeManager" THEN "repofile" ELSE "verify"
AfterStageB(m) == IF m = "ostreeManager" THEN "stageC" ELSE "stageA"
AfterMetadata(m) == IF m = "ostreeManager" THEN "repofile" ELSE "verify"

\* ------------------------------------------------------------------- state
VARIABLES
  \* the store (config.repo_name) and /tmp
  localRefs,          \* refs/heads: ref -> commit
  remoteRefs,         \* refs/remotes: <<remote, ref>> -> commit
  files,              \* transient ref files: path -> directory entry
  mirrorsDir,         \* refs/mirrors exists
  staged,             \* appstream/x86_64/active/appstream.xml
  xmlCache,           \* /tmp/appstream.xml
  upstream,           \* the version the remotes currently serve
  layout,             \* the store's transient layout
  faults,             \* faults injected so far
  \* index.js
  remotes,            \* config.repo_remotes
  pc,                 \* position of the top-level script
  fatal,              \* what rejected the top-level await, "" if nothing
  remoteIdx,          \* the for-of position over remotes
  components,         \* the sliced component list of the current remote
  i,                  \* the component loop index (1-based)
  appFetched,
  mirroredComponents,
  \* the fetchPackage call in progress
  fpPhase, fpRepo, fpApp, commit, fpResult,
  \* observation of the run (not program state)
  outcome,            \* what became of the current call
  probes,             \* resolution probes of the current call, in order
  accepted,           \* whether the store took the ref write of this call
  cleanupErrors,      \* errors raised inside cleanupMirroredRefs in this call
  refsAtCall,         \* localRefs when the current call started
  prevCall,           \* the previous fetchPackage call: ref, commit, outcome
  promotedNow,        \* refs promoted in this pass
  attempted,          \* <<remote, ref>> pulled in this pass
  logged,             \* index.js's verdict on the last settled call
  pullCount,          \* fetchPackage calls per <<remote index, component, kind>>
  \* createSummary
  manager,            \* the version of the ostree manager module in use
  summary,            \* the store's summary file
  rcIdx,              \* loop index over the catalog refs / the metadata keys
  stageLog,           \* store operations of createSummary so far, in order
  verified,           \* what verifyAppstreamRefs reported
  \* the environment
  budget,             \* faults the environment may inject in this run
  \* libflatpakMirror.js, mirrorPackagesLibOnly
  libPc,              \* position of the package loop
  libPackages,        \* the packages handed in, each with what libflatpak does
  libIdx,             \* the loop index (1-based)
  libResults,         \* results: success, failed, skipped, failures
  libRuns,            \* transaction.run calls per package index
  \* reconciliation run again on the same store
  rcRun,              \* which run of the reconciliation this is
  firstRun,           \* ref list and catalog ref targets after the first run
  \* ostreeManager.js, initRepo
  initPc,             \* position of initRepo
  initIdx,            \* the for-of position over config.repo_remotes
  initRun,            \* which run of initRepo this is
  objects,            \* the store's objects directory exists
  storeMode,          \* the mode the store was initialized with
  structure,          \* appstream/x86_64/{icons,active} exist
  storeRemotes,       \* the remotes configured in the store, as listed
  initCmds,           \* ostree init / remote add commands issued in this run
  prevInit,           \* the store as the previous run of initRepo left it
  \* libflatpakMirror.js, mirrorFlatpakLibOnly
  mfPc,               \* position of mirrorFlatpakLibOnly
  mfRepo,             \* what of the repository structure is on disk
  mfRemote,           \* the target remote is in the installation
  mfMax,              \* config.max_packages
  mfListed,           \* what listRemoteRefsSync returned
  mfSteps,            \* how each step of the run went
  \* fetchAppstream.js, fetchAppstream under each entry point
  entry,              \* the entry point: the for-of loop or forEach(async)
  served,             \* the catalog each remote's URL serves
  gzFile,             \* /tmp/appstream.xml.gz
  cbPc,               \* position of each remote's fetchAppstream
  buffer,             \* the downloaded bytes each call holds
  appstream_data,     \* what fetchAppstream resolved to, per remote
  \* flatpakLib.js, addRemote
  arPc,               \* position of addRemote
  options,            \* the options argument
  arRemote,           \* the Remote object built through the bindings
  arConfig            \* the remote as addRemote configured it

storeVars == <<localRefs, remoteRefs, files, mirrorsDir, staged, xmlCache,
               upstream, layout, faults>>
mainVars  == <<remotes, pc, fatal, remoteIdx, components, i, appFetched,
               mirroredComponents>>
callVars  == <<fpPhase, fpRepo, fpApp, commit, fpResult>>
rcVars    == <<manager, summary, rcIdx, stageLog, verified>>
obsVars   == <<outcome, probes, accepted, cleanupErrors, refsAtCall, prevCall,
               promotedNow, attempted, logged>>
libVars   == <<libPc, libPackages, libIdx, libResults, libRuns>>
runVars   == <<rcRun, firstRun>>
initVars  == <<initPc, initIdx, initRun, objects, storeMode, structure,
               storeRemotes, initCmds, prevInit>>
mirrorVars == <<mfPc, mfRepo, mfRemote, mfMax, mfListed, mfSteps>>
catalogVars == <<entry, served, gzFile, cbPc, buffer, appstream_data>>
remoteVars == <<arPc, options, arRemote, arConfig>>
tailVars  == <<catalogVars, remoteVars>>
extVars   == <<runVars, initVars, mirrorVars, tailVars>>
\* The store's refs and transient files, and the pass of index.js over them.
refVars   == <<localRefs, remoteRefs, files, mirrorsDir, staged, xmlCache,
               upstream, layout>>
passVars  == <<mainVars, callVars, obsVars, pullCount, rcVars, budget, libVars>>
vars == <<storeVars, mainVars, callVars, obsVars, pullCount, rcVars, budget,
          libVars, extVars>>

NoFile == [present |-> FALSE, components |-> <<>>]
XmlFile(cat) == [present |-> TRUE, components |-> cat]

NoCall == [app |-> <<>>, commit |-> <<>>, outcome |-> "none"]

Probe(strategy, index, hit, yield) ==
  [strategy |-> strategy, index |-> index, hit |-> hit, yield |-> yield]

\* The ref list and the catalog ref targets of a store.
RefState(local, remote) ==
  [refs |-> ListRefs(local, remote),
   targets |-> [k \in 1..Len(CatalogRefNames) |->
                  IF CatalogRefNames[k] \in DOMAIN local
                  THEN local[CatalogRefNames[k]] ELSE Null]]

\* The reconciliation has run at most once in this process.
FirstRunOnly ==
  /\ rcRun = 1
  /\ firstRun = RefState(<<>>, <<>>)

NoInit == [returned |-> FALSE, objects |-> FALSE, mode |-> "",
           remotes |-> <<>>, faults |-> 0]

\* index.js:21  initRepo has run once on a new store, and nothing failed.
InitRepoDone ==
  /\ initPc = "returned"
  /\ initIdx = Len(remotes) + 1
  /\ initRun = 1
  /\ objects = TRUE
  /\ storeMode = "archive-z2"
  /\ structure = TRUE
  /\ storeRemotes = remotes
  /\ initCmds = <<>>
  /\ prevInit = NoInit

NoSteps == [init |-> "none", remote |-> "none", update |-> "none",
            listing |-> "none", appstream |-> "none", exit |-> "none"]

\* mirrorFlatpakLibOnly is not running.
MirrorIdle ==
  /\ mfPc = "idle"
  /\ mfRepo = "absent"
  /\ mfRemote = FALSE
  /\ mfMax = 0
  /\ mfListed = <<>>
  /\ mfSteps = NoSteps

\* No fetchAppstream call is followed step by step.
CatalogIdle ==
  /\ entry = "none"
  /\ served = <<>>
  /\ gzFile = NoFile
  /\ cbPc = <<>>
  /\ buffer = <<>>
  /\ appstream_data = <<>>

NoOptions == [noGpgVerify |-> "undefined", title |-> FALSE, comment |-> FALSE]
NoRemote == [made |-> FALSE, via |-> "", gpgVerify |-> ""]

\* addRemote is not running.
RemoteIdle ==
  /\ arPc = "idle"
  /\ options = NoOptions
  /\ arRemote = NoRemote
  /\ arConfig = NoRemote

TailIdle == CatalogIdle /\ RemoteIdle

\* Nothing but index.js and what it calls is running.
ExtIdle ==
  /\ FirstRunOnly
  /\ InitRepoDone
  /\ MirrorIdle
  /\ TailIdle

\* mirrorPackagesLibOnly is not running.
LibIdle ==
  /\ libPc = "idle"
  /\ libPackages = <<>>
  /\ libIdx = 1
  /\ libResults = [success |-> 0, failed |-> 0, skipped |-> 0, failures |-> <<>>]
  /\ libRuns = <<>>

\* index.js:21-24  the state after initRepo() and the declarations
Init ==
  /\ localRefs = <<>>
  /\ upstream = 1
  /\ layout \in Layouts
  /\ faults = 0
  /\ remoteRefs = <<>>
  /\ files = <<>>
  /\ mirrorsDir \in BOOLEAN
  /\ staged = NoFile
  /\ xmlCache = NoFile
  /\ remotes \in Configs
  /\ pc = "fetchAppstream"
  /\ fatal = ""
  /\ remoteIdx = 1
  /\ components = <<>>
  /\ i = 1
  /\ appFetched = FALSE
  /\ mirroredComponents = <<>>
  /\ fpPhase = "idle" /\ fpRepo = "" /\ fpApp = <<>> /\ commit = Null
  /\ fpResult = "none"
  /\ outcome = "none" /\ probes = <<>> /\ accepted = FALSE
  /\ cleanupErrors = 0
  /\ refsAtCall = <<>> /\ prevCall = NoCall
  /\ promotedNow = {} /\ attempted = {} /\ logged = "none"
  /\ pullCount = <<>>
  /\ manager = "either"
  /\ summary = NoSummary
  /\ rcIdx = 1
  /\ stageLog = <<>>
  /\ verified = NotVerified
  /\ budget = MaxFaults
  /\ LibIdle
  /\ ExtIdle


\* What an operation of the environment may do: succeed, or fail while the
\* fault budget lasts.
Outcomes == IF faults < budget THEN {TRUE, FALSE} ELSE {TRUE}

\* ------------------------------------------------- fetchPackage (mirror mode)
\* fetchAppstream.js:218-231  entry: nothing is resolved yet
BeginCall(repo, app) ==
  /\ fpPhase' = "pull"
  /\ fpRepo' = repo
  /\ fpApp' = app
  /\ commit' = Null
  /\ fpResult' = "none"
  /\ outcome' = "none"
  /\ probes' = <<>>
  /\ accepted' = FALSE
  /\ cleanupErrors' = 0
  /\ refsAtCall' = localRefs
  /\ attempted' = attempted \cup {<<repo, app>>}

\* fetchAppstream.js:301-303  the outer catch rethrows whatever was raised
\* between the pull and the return.
Throw(what) ==
  /\ fpPhase' = "done"
  /\ fpResult' = "threw"
  /\ outcome' = what

\* fetchAppstream.js:222-228  ostree pull --mirror
Pull ==
  /\ fpPhase = "pull"
  /\ \/ /\ faults < budget
        /\ faults' = faults + 1
        /\ Throw("PullFailed")
        /\ UNCHANGED <<localRefs, remoteRefs, files, mirrorsDir, staged,
                       xmlCache, upstream, layout, commit>>
     \/ /\ \E v \in upstream..MaxVersions :
             LET c == CommitOf(fpRepo, fpApp, v)
             IN  /\ upstream' = v
                 /\ \/ /\ layout = "none"
                       /\ UNCHANGED <<remoteRefs, files, mirrorsDir, faults>>
                    \/ /\ layout = "remote"
                       /\ remoteRefs' = With(remoteRefs, <<fpRepo, fpApp>>, c)
                       /\ UNCHANGED <<files, mirrorsDir, faults>>
                    \/ /\ layout \in FileLayouts
                       /\ UNCHANGED remoteRefs
                       /\ LET p == DepositPath(layout, fpRepo, fpApp)
                          IN  /\ mirrorsDir' = (mirrorsDir \/ UnderMirrors(p))
                              /\ \/ /\ files' = With(files, p, RefFile(c))
                                    /\ UNCHANGED faults
                                 \/ /\ faults < budget
                                    /\ faults' = faults + 1
                                    /\ \E e \in DamagedEntries :
                                         files' = With(files, p, e)
        /\ fpPhase' = "scan"
        /\ UNCHANGED <<localRefs, staged, xmlCache, layout,
                       commit, fpResult, outcome>>
  /\ UNCHANGED <<mainVars, fpRepo, fpApp, probes, accepted, cleanupErrors,
                 refsAtCall, prevCall, promotedNow, attempted, logged>>
  /\ UNCHANGED <<pullCount, rcVars, budget, libVars, extVars>>

\* Where resolution goes after findMirroredRefFile returned mirroredRefPath.
AfterScan(mirroredRefPath) ==
  IF ProbesKnownPaths(mirroredRefPath, mirrorsDir) THEN "known" ELSE "revparse"

\* fetchAppstream.js:155-178, 234-239  findMirroredRefFile and the read of
\* the file it returns
Scan ==
  /\ fpPhase = "scan"
  /\ \/ \* fs.access fails: return null
        /\ ~mirrorsDir
        /\ probes' = Append(probes, Probe(1, 0, FALSE, Null))
        /\ fpPhase' = AfterScan(Null)
        /\ UNCHANGED <<commit, fpResult, outcome, faults>>
     \/ \* readdir rejects inside findFilesRecursive: nothing catches it
        \* before the outer catch
        /\ mirrorsDir
        /\ faults < budget
        /\ faults' = faults + 1
        /\ Throw("ScanFailed")
        /\ UNCHANGED <<commit, probes>>
     \/ \* files.length === 0: return null
        /\ mirrorsDir
        /\ FindFilesRecursive(files, fpApp) = {}
        /\ probes' = Append(probes, Probe(1, 0, FALSE, Null))
        /\ fpPhase' = AfterScan(Null)
        /\ UNCHANGED <<commit, fpResult, outcome, faults>>
     \/ \* files[0]
        /\ mirrorsDir
        /\ \E f \in FindFilesRecursive(files, fpApp) :
             /\ commit' = Trim(files[f].data)
             /\ probes' = Append(probes, Probe(1, 1, TRUE, Trim(files[f].data)))
             /\ fpPhase' = AfterScan(f)
        /\ UNCHANGED <<fpResult, outcome, faults>>
  /\ UNCHANGED <<localRefs, remoteRefs, files, mirrorsDir, staged, xmlCache,
                 upstream, layout,
                 mainVars, fpRepo, fpApp, accepted, cleanupErrors,
                 refsAtCall, prevCall, promotedNow, attempted, logged>>
  /\ UNCHANGED <<pullCount, rcVars, budget, libVars, extVars>>

\* The probes of the known-path loop that stops at index k (0: none found).
KnownProbes(fs, paths, k) ==
  [j \in 1..(IF k = 0 THEN Len(paths) ELSE k) |->
     IF j = k THEN Probe(2, j, TRUE, Trim(fs[paths[j]].data))
     ELSE Probe(2, j, FALSE, Null)]

\* fetchAppstream.js:241-264  the known paths, first regular file wins
Known ==
  /\ fpPhase = "known"
  /\ LET paths == KnownPaths(fpRepo, fpApp)
         k == FirstKnownFile(files, paths, 1)
     IN  /\ commit' = IF k = 0 THEN commit ELSE Trim(files[paths[k]].data)
         /\ probes' = probes \o KnownProbes(files, paths, k)
  /\ fpPhase' = "revparse"
  /\ UNCHANGED <<storeVars, mainVars, fpRepo, fpApp, fpResult, outcome,
                 accepted, cleanupErrors, refsAtCall, prevCall, promotedNow,
                 attempted, logged>>
  /\ UNCHANGED <<pullCount, rcVars, budget, libVars, extVars>>

\* The probes of the rev-parse loop that stops at index k (0: both failed).
RevParseProbes(local, remote, specs, k) ==
  [j \in 1..(IF k = 0 THEN Len(specs) ELSE k) |->
     Probe(3, j, j = k, RevParse(local, remote, specs[j]))]

\* fetchAppstream.js:266-282  rev-parse of remote:ref, then of ref
RevParseStep ==
  /\ fpPhase = "revparse"
  /\ IF NeedsRevParse(commit)
     THEN LET specs == RefSpecs(fpRepo, fpApp)
              k == FirstRevParse(localRefs, remoteRefs, specs, 1)
          IN  /\ commit' = IF k = 0 THEN commit
                           ELSE Trim(RevParse(localRefs, remoteRefs, specs[k]))
              /\ probes' = probes \o RevParseProbes(localRefs, remoteRefs, specs, k)
     ELSE UNCHANGED <<commit, probes>>
  /\ fpPhase' = "promote"
  /\ UNCHANGED <<storeVars, mainVars, fpRepo, fpApp, fpResult, outcome,
                 accepted, cleanupErrors, refsAtCall, prevCall, promotedNow,
                 attempted, logged>>
  /\ UNCHANGED <<pullCount, rcVars, budget, libVars, extVars>>

\* Mutant: the ref is written whatever resolution gave.
Unresolved_Never(c) == FALSE

\* fetchAppstream.js:284  if (!commit)
Unresolved(c) == ~Truthy(c)

\* Mutant: cleanup runs whether or not the ref was written.
CleansUp_Always(promoted) == TRUE

\* fetchAppstream.js:290-298  cleanupMirroredRefs is awaited after the
\* awaited ref write: a rejected write throws past it
CleansUp(promoted) == promoted

\* fetchAppstream.js:284-295  no commit: warn and return stdout; otherwise
\* the forced create of the local ref
Promote ==
  /\ fpPhase = "promote"
  /\ \/ /\ Unresolved(commit)
        /\ fpPhase' = "done"
        /\ fpResult' = "returned"
        /\ outcome' = "ResolutionFailed"
        /\ UNCHANGED <<localRefs, accepted, promotedNow, faults>>
     \/ /\ ~Unresolved(commit)
        /\ \E storeOk \in Outcomes :
             LET made == PromoteRef(localRefs, fpApp, commit, storeOk)
             IN  /\ accepted' = storeOk
                 /\ faults' = faults + (IF storeOk THEN 0 ELSE 1)
                 /\ localRefs' = made.refs
                 /\ promotedNow' = (IF made.ok THEN promotedNow \cup {fpApp}
                                    ELSE promotedNow)
                 /\ IF CleansUp(made.ok)
                    THEN /\ fpPhase' = "cleanup"
                         /\ UNCHANGED <<fpResult, outcome>>
                    ELSE Throw("PromotionFailed")
  /\ UNCHANGED <<remoteRefs, files, mirrorsDir, staged, xmlCache, upstream,
                 layout,
                 mainVars, fpRepo, fpApp, commit, probes, cleanupErrors,
                 refsAtCall,
                 prevCall, attempted, logged>>
  /\ UNCHANGED <<pullCount, rcVars, budget, libVars, extVars>>

\* fetchAppstream.js:183-205  cleanupMirroredRefs, the unlink loop
CleanupUnlink ==
  /\ fpPhase = "cleanup"
  /\ LET paths == PossibleMirrorPaths(fpRepo, fpApp)
         tried == {j \in 1..Len(paths) : Includes(paths[j], MirrorsDirPath)}
         there == {j \in tried : paths[j] \in DOMAIN files /\ files[paths[j]].isFile}
     IN  \E failing \in SUBSET there :
           /\ failing # {} => faults < budget
           /\ faults' = faults + (IF failing # {} THEN 1 ELSE 0)
           /\ files' = CleanupFiles(files, paths, failing)
           /\ cleanupErrors' =
                Cardinality(tried) - Cardinality(UnlinkRemoves(files, paths, failing))
  /\ fpPhase' = "cleanupDelete"
  /\ UNCHANGED <<localRefs, remoteRefs, mirrorsDir, staged, xmlCache,
                 upstream, layout, mainVars,
                 fpRepo, fpApp, commit, fpResult, outcome, probes, accepted,
                 refsAtCall, prevCall, promotedNow, attempted, logged>>
  /\ UNCHANGED <<pullCount, rcVars, budget, libVars, extVars>>

\* fetchAppstream.js:207-212, 298-300  the store-level delete, then return
CleanupDelete ==
  /\ fpPhase = "cleanupDelete"
  /\ \E ok \in Outcomes :
       LET after == DeleteRef(localRefs, remoteRefs,
                              DeleteTarget(fpRepo, fpApp), ok)
       IN  /\ localRefs' = after.local
           /\ remoteRefs' = after.remote
           /\ faults' = faults + (IF ok THEN 0 ELSE 1)
           /\ cleanupErrors' = cleanupErrors + (IF ok THEN 0 ELSE 1)
           /\ IF CleanupThrows(cleanupErrors > 0, ~ok)
              THEN Throw("CleanupFailed")
              ELSE /\ fpPhase' = "done"
                   /\ fpResult' = "returned"
                   /\ outcome' = "Promoted"
  /\ UNCHANGED <<files, mirrorsDir, staged, xmlCache, upstream, layout,
                 mainVars,
                 fpRepo, fpApp, commit, probes, accepted, refsAtCall, prevCall,
                 promotedNow, attempted, logged>>
  /\ UNCHANGED <<pullCount, rcVars, budget, libVars, extVars>>

\* ---------------------------------------------------------------- index.js
\* The awaited fetchPackage call has settled: forget it, keep what is
\* observed of it.
SettleCall ==
  /\ prevCall' = [app |-> fpApp, commit |-> commit, outcome |-> outcome]
  /\ fpPhase' = "idle"
  /\ fpRepo' = ""
  /\ fpApp' = <<>>
  /\ commit' = Null
  /\ fpResult' = "none"
  /\ outcome' = "none"
  /\ probes' = <<>>
  /\ accepted' = FALSE
  /\ cleanupErrors' = 0
  /\ refsAtCall' = <<>>

\* An unhandled rejection of a top-level await ends the process.
Crash(what) ==
  /\ pc' = "crashed"
  /\ fatal' = what

\* fetchAppstream.js:9-67 and index.js:31-36  the cached XML when present,
\* else the download; xml2js gives no `component` property for a catalog
\* with no component, and slice of undefined throws.
FetchAppstream ==
  /\ pc = "fetchAppstream"
  /\ fpPhase = "idle"
  /\ \/ /\ xmlCache.present
        /\ Len(xmlCache.components) > 0
        /\ components' = Slice(xmlCache.components, SliceCap)
        /\ i' = 1
        /\ pc' = "component"
        /\ UNCHANGED <<xmlCache, fatal>>
     \/ /\ xmlCache.present
        /\ Len(xmlCache.components) = 0
        /\ Crash("slice")
        /\ UNCHANGED <<xmlCache, components, i>>
     \/ /\ ~xmlCache.present
        /\ Crash("fetchAppstream")
        /\ UNCHANGED <<xmlCache, components, i>>
     \/ /\ ~xmlCache.present
        /\ \E cat \in Catalogs :
             /\ xmlCache' = XmlFile(cat)
             /\ IF Len(cat) > 0
                THEN /\ components' = Slice(cat, SliceCap)
                     /\ i' = 1
                     /\ pc' = "component"
                     /\ UNCHANGED fatal
                ELSE /\ Crash("slice")
                     /\ UNCHANGED <<components, i>>
  /\ UNCHANGED <<localRefs, remoteRefs, files, mirrorsDir, staged, upstream,
                 layout, faults,
                 remotes, remoteIdx, appFetched, mirroredComponents, callVars,
                 obsVars>>
  /\ UNCHANGED <<pullCount, rcVars, budget, libVars, extVars>>

\* Mutant: the loop over the remotes ends after the first one.
MoreRemotes_FirstOnly(idx, rs) == FALSE

\* index.js:27  for (const remote of config.repo_remotes)
MoreRemotes(idx, rs) == idx < Len(rs)

\* index.js:38-54, 103-104  the loop head: next remote, next component, or
\* the component's bundle
ComponentHead ==
  /\ pc = "component"
  /\ \/ /\ i > Len(components)
        /\ MoreRemotes(remoteIdx, remotes)
        /\ remoteIdx' = remoteIdx + 1
        /\ pc' = "fetchAppstream"
        /\ UNCHANGED <<i, appFetched>>
     \/ /\ i > Len(components)
        /\ ~MoreRemotes(remoteIdx, remotes)
        /\ pc' = "generate"
        /\ UNCHANGED <<i, appFetched, remoteIdx>>
     \/ /\ i <= Len(components)
        /\ components[i].bundle = NoBundle
        /\ i' = i + 1
        /\ UNCHANGED <<pc, appFetched, remoteIdx>>
     \/ /\ i <= Len(components)
        /\ components[i].bundle # NoBundle
        /\ appFetched' = FALSE
        /\ pc' = "app"
        /\ UNCHANGED <<i, remoteIdx>>
  /\ UNCHANGED <<storeVars, remotes, fatal, components, mirroredComponents,
                 callVars, obsVars>>
  /\ UNCHANGED <<pullCount, rcVars, budget, libVars, extVars>>

\* One more fetchPackage call issued from position k of the script.
Counted(count, k) ==
  With(count, k, IF k \in DOMAIN count THEN count[k] + 1 ELSE 1)

\* Mutant: the app ref is fetched for every bundle.
IsFlatpak_AnyBundle(bundle) == TRUE

\* index.js:57  if (bundle.type === "flatpak")
IsFlatpak(bundle) == bundle.type = "flatpak"

\* index.js:56-61  the app ref is fetched when bundle.type is "flatpak"
CallApp ==
  /\ pc = "app"
  /\ \/ /\ IsFlatpak(components[i].bundle)
        /\ BeginCall(remotes[remoteIdx], AppRef(components[i].id))
        /\ pullCount' = Counted(pullCount, <<remoteIdx, i, "app">>)
        /\ pc' = "appWait"
     \/ /\ ~IsFlatpak(components[i].bundle)
        /\ pc' = "runtime"
        /\ UNCHANGED <<callVars, outcome, probes, accepted, cleanupErrors,
                       refsAtCall, attempted, pullCount>>
  /\ UNCHANGED <<storeVars, remotes, fatal, remoteIdx, components, i,
                 appFetched, mirroredComponents, prevCall, promotedNow,
                 logged>>
  /\ UNCHANGED <<rcVars, budget, libVars, extVars>>

\* Mutant: the script goes on without waiting for the call to settle.
Awaited_FireAndForget(phase) == TRUE

\* index.js:61, 73  await fetchPackage(...): the script resumes when the
\* call has settled.
Awaited(phase) == phase = "done"

\* Mutant: the app fetch has no catch of its own.
OnAppThrow_NoInnerCatch == "component"

\* index.js:64-66  the catch around the app fetch: log and go on to the
\* runtime. Without it the rejection reaches the catch of index.js:98-100,
\* which goes on to the next component.
OnAppThrow == "runtime"

\* index.js:61-66, 98-100  the app fetch settled
AppSettled ==
  /\ pc = "appWait"
  /\ Awaited(fpPhase)
  /\ IF fpResult = "returned"
     THEN /\ appFetched' = TRUE
          /\ logged' = "fetched"
          /\ pc' = "runtime"
          /\ UNCHANGED i
     ELSE /\ logged' = "failed"
          /\ UNCHANGED appFetched
          /\ IF OnAppThrow = "runtime"
             THEN pc' = "runtime" /\ UNCHANGED i
             ELSE pc' = "component" /\ i' = i + 1
  /\ SettleCall
  /\ UNCHANGED <<storeVars, remotes, fatal, remoteIdx, components,
                 mirroredComponents, promotedNow, attempted>>
  /\ UNCHANGED <<pullCount, rcVars, budget, libVars, extVars>>

\* Mutant: the runtime fetch is given the bundle's sdk.
RuntimeOf_Sdk(bundle) == bundle.sdk

\* index.js:52, 70-73  const runtime = bundle?.runtime; the sdk (index.js:53)
\* is read and used nowhere: the block that fetched it is commented out
\* (index.js:80-92).
RuntimeOf(bundle) == bundle.runtime

\* index.js:69-73  the runtime ref is fetched when the bundle names one
CallRuntime ==
  /\ pc = "runtime"
  /\ \/ /\ RuntimeOf(components[i].bundle) # ""
        /\ BeginCall(remotes[remoteIdx],
                     RuntimeRef(RuntimeOf(components[i].bundle)))
        /\ pullCount' = Counted(pullCount, <<remoteIdx, i, "runtime">>)
        /\ pc' = "runtimeWait"
     \/ /\ RuntimeOf(components[i].bundle) = ""
        /\ pc' = "push"
        /\ UNCHANGED <<callVars, outcome, probes, accepted, cleanupErrors,
                       refsAtCall, attempted, pullCount>>
  /\ UNCHANGED <<storeVars, remotes, fatal, remoteIdx, components, i,
                 appFetched, mirroredComponents, prevCall, promotedNow,
                 logged>>
  /\ UNCHANGED <<rcVars, budget, libVars, extVars>>

\* index.js:73-77  the runtime fetch settled; its result is only logged
RuntimeSettled ==
  /\ pc = "runtimeWait"
  /\ Awaited(fpPhase)
  /\ logged' = IF fpResult = "returned" THEN "fetched" ELSE "failed"
  /\ pc' = "push"
  /\ SettleCall
  /\ UNCHANGED <<storeVars, remotes, fatal, remoteIdx, components, i,
                 appFetched, mirroredComponents, promotedNow,
                 attempted>>
  /\ UNCHANGED <<pullCount, rcVars, budget, libVars, extVars>>

\* index.js:94-97  the component is kept when appFetched
PushComponent ==
  /\ pc = "push"
  /\ mirroredComponents' = IF appFetched
                           THEN Append(mirroredComponents, components[i])
                           ELSE mirroredComponents
  /\ i' = i + 1
  /\ pc' = "component"
  /\ UNCHANGED <<storeVars, remotes, fatal, remoteIdx, components, appFetched,
                 callVars, obsVars>>
  /\ UNCHANGED <<pullCount, rcVars, budget, libVars, extVars>>

\* index.js:106-116 and ostreeManager.js:97-141  the catalog of the mirrored
\* components is written to the active directory; a failed write rejects.
GenerateAppstream ==
  /\ pc = "generate"
  /\ \/ /\ Len(mirroredComponents) > 0
        /\ staged' = XmlFile(mirroredComponents)
        /\ pc' = "summary"
        /\ UNCHANGED fatal
     \/ /\ Len(mirroredComponents) > 0
        /\ Crash("generateAppstream")
        /\ UNCHANGED staged
     \/ /\ Len(mirroredComponents) = 0
        /\ pc' = "summary"
        /\ UNCHANGED <<staged, fatal>>
  /\ UNCHANGED <<localRefs, remoteRefs, files, mirrorsDir, xmlCache, upstream,
                 layout, faults,
                 remotes, remoteIdx, components, i, appFetched, mirroredComponents,
                 callVars, obsVars>>
  /\ UNCHANGED <<pullCount, rcVars, budget, libVars, extVars>>

\* index.js:118-120 and ostreeManager.js:143-150 / part_000:143-150
\* createSummary is entered. Which version of the module is in use shows
\* here for the first time.
CreateSummary ==
  /\ pc = "summary"
  /\ \E m \in (IF manager = "either" THEN Managers ELSE {manager}) :
       /\ manager' = m
       /\ pc' = FirstStage(m)
  /\ rcIdx' = 1
  /\ stageLog' = <<>>
  /\ UNCHANGED <<storeVars, remotes, fatal, remoteIdx, components, i,
                 appFetched, mirroredComponents, callVars, obsVars, pullCount,
                 summary, verified, budget, libVars, extVars>>

\* ostreeManager.js:150-184 / part_000:153-182  flatpak build-update-repo
StageA ==
  /\ pc = "stageA"
  /\ \E ok \in Outcomes :
       /\ faults' = faults + (IF ok THEN 0 ELSE 1)
       /\ stageLog' = Append(stageLog, StageEntry("A", 0, ok))
       /\ localRefs' = IF ok
                       THEN BuildUpdateRepo(localRefs, UpdatesAppstream(manager))
                       ELSE localRefs
       /\ summary' = IF ok
                     THEN UpdatedSummary(summary, localRefs', remoteRefs)
                     ELSE summary
       /\ pc' = AfterStageA(manager, ok)
  /\ UNCHANGED <<remoteRefs, files, mirrorsDir, staged, xmlCache, upstream,
                 layout, remotes, fatal, remoteIdx, components, i, appFetched,
                 mirroredComponents, callVars, obsVars, pullCount, manager,
                 rcIdx, verified, budget, libVars, extVars>>

\* ostreeManager.js:190-201, 213-215 / part_000:188-205, 217-219  the active
\* directory is read: unreadable or empty, nothing is committed
StageB ==
  /\ pc = "stageB"
  /\ \/ /\ faults < budget
        /\ faults' = faults + 1
        /\ stageLog' = Append(stageLog, StageEntry("R", 0, FALSE))
        /\ pc' = AfterStageB(manager)
     \/ /\ ~staged.present
        /\ stageLog' = Append(stageLog, StageEntry("R", 0, TRUE))
        /\ pc' = AfterStageB(manager)
        /\ UNCHANGED faults
     \/ /\ staged.present
        /\ stageLog' = Append(stageLog, StageEntry("R", 0, TRUE))
        /\ pc' = "commitRef"
        /\ UNCHANGED faults
  /\ rcIdx' = 1
  /\ UNCHANGED <<localRefs, remoteRefs, files, mirrorsDir, staged, xmlCache,
                 upstream, layout, remotes, fatal, remoteIdx, components, i,
                 appFetched, mirroredComponents, callVars, obsVars, pullCount,
                 manager, summary, verified, budget, libVars, extVars>>

\* ostreeManager.js:203-211 / part_000:207-216  ostree commit to one ref
CommitRef ==
  /\ pc = "commitRef"
  /\ \E ok \in Outcomes :
       /\ faults' = faults + (IF ok THEN 0 ELSE 1)
       /\ stageLog' = Append(stageLog, StageEntry("B", rcIdx, ok))
       /\ localRefs' = IF ok
                       THEN With(localRefs, CatalogRefNames[rcIdx],
                                 CommitTo(localRefs, CatalogRefNames[rcIdx],
                                          staged))
                       ELSE localRefs
       /\ IF NextRef(rcIdx, ok) <= Len(CatalogRefNames)
          THEN /\ rcIdx' = NextRef(rcIdx, ok)
               /\ UNCHANGED pc
          ELSE /\ rcIdx' = 1
               /\ pc' = AfterStageB(manager)
  /\ UNCHANGED <<remoteRefs, files, mirrorsDir, staged, xmlCache, upstream,
                 layout, remotes, fatal, remoteIdx, components, i, appFetched,
                 mirroredComponents, callVars, obsVars, pullCount, manager,
                 summary, verified, budget, libVars, extVars>>

\* ostreeManager.js:217-224 / part_000:222-231  ostree summary -u; its
\* failure is rethrown and nothing up to index.js:120 catches it
StageC ==
  /\ pc = "stageC"
  /\ \E ok \in Outcomes :
       /\ faults' = faults + (IF ok THEN 0 ELSE 1)
       /\ stageLog' = Append(stageLog, StageEntry("C", 0, ok))
       /\ IF ok
          THEN /\ summary' = UpdatedSummary(summary, localRefs, remoteRefs)
               /\ pc' = "metadata"
               /\ UNCHANGED fatal
          ELSE /\ Crash("createSummary")
               /\ UNCHANGED summary
  /\ rcIdx' = 1
  /\ UNCHANGED <<localRefs, remoteRefs, files, mirrorsDir, staged, xmlCache,
                 upstream, layout, remotes, remoteIdx, components, i,
                 appFetched, mirroredComponents, callVars, obsVars, pullCount,
                 manager, verified, budget, libVars, extVars>>

\* ostreeManager.js:233-255 / part_000:237-261  addFlatpakMetadata, one key
AddMetadata ==
  /\ pc = "metadata"
  /\ \E ok \in Outcomes :
       /\ faults' = faults + (IF ok THEN 0 ELSE 1)
       /\ stageLog' = Append(stageLog, StageEntry("K", rcIdx, ok))
       /\ summary' = IF ok
                     THEN [summary EXCEPT !.keys = @ \cup {MetadataKeys[rcIdx]}]
                     ELSE summary
       /\ IF NextKey(rcIdx, ok) <= Len(MetadataKeys)
          THEN /\ rcIdx' = NextKey(rcIdx, ok)
               /\ UNCHANGED pc
          ELSE /\ rcIdx' = 1
               /\ pc' = AfterMetadata(manager)
  /\ UNCHANGED <<localRefs, remoteRefs, files, mirrorsDir, staged, xmlCache,
                 upstream, layout, remotes, fatal, remoteIdx, components, i,
                 appFetched, mirroredComponents, callVars, obsVars, pullCount,
                 manager, verified, budget, libVars, extVars>>

\* part_000:263-291  verifyAppstreamRefs: list the refs and report
VerifyAppstreamRefs ==
  /\ pc = "verify"
  /\ \E ok \in Outcomes :
       /\ faults' = faults + (IF ok THEN 0 ELSE 1)
       /\ stageLog' = Append(stageLog, StageEntry("V", 0, ok))
       /\ verified' = IF ok
                      THEN VerifyReport(ListRefs(localRefs, remoteRefs))
                      ELSE VerifyUnlisted
  /\ pc' = "repofile"
  /\ UNCHANGED <<localRefs, remoteRefs, files, mirrorsDir, staged, xmlCache,
                 upstream, layout, remotes, fatal, remoteIdx, components, i,
                 appFetched, mirroredComponents, callVars, obsVars, pullCount,
                 manager, summary, rcIdx, budget, libVars, extVars>>

\* index.js:122-128, 143-166  the .flatpakrepo file (a failed write is only
\* warned about) and the closing report
GenerateFlatpakrepoFile ==
  /\ pc = "repofile"
  /\ pc' = "done"
  /\ UNCHANGED <<storeVars, remotes, fatal, remoteIdx, components, i,
                 appFetched, mirroredComponents, callVars, obsVars>>
  /\ UNCHANGED <<pullCount, rcVars, budget, libVars, extVars>>

Next ==
  \/ FetchAppstream
  \/ ComponentHead
  \/ CallApp
  \/ Pull
  \/ Scan
  \/ Known
  \/ RevParseStep
  \/ Promote
  \/ CleanupUnlink
  \/ CleanupDelete
  \/ AppSettled
  \/ CallRuntime
  \/ RuntimeSettled
  \/ PushComponent
  \/ GenerateAppstream
  \/ CreateSummary
  \/ StageA
  \/ StageB
  \/ CommitRef
  \/ StageC
  \/ AddMetadata
  \/ VerifyAppstreamRefs
  \/ GenerateFlatpakrepoFile

Spec == Init /\ [][Next]_vars

\* ------------------------------------------------ createSummary on its own
\* The catalogs whose mirroring leaves the stores createSummary is run on.
ReconcileCatalogs == {<<CompD>>, <<CompA>>, <<CompE>>, <<CompA, CompE>>}

\* index.js:27-116  the state in which index.js calls createSummary after
\* one remote served catalog cat, every app of it was pulled, resolved by
\* rev-parse and promoted, and generateAppstream wrote the catalog.
AfterMirroring(cat) ==
  LET apps  == {k \in 1..Len(cat) : cat[k].bundle # NoBundle}
      refs  == {AppRef(cat[k].id) : k \in apps}
      last  == AppRef(cat[Len(cat)].id)
  IN  /\ remotes = <<"flathub">>
      /\ xmlCache = XmlFile(cat)
      /\ components = Slice(cat, SliceCap)
      /\ remoteIdx = 1
      /\ i = Len(cat) + 1
      /\ appFetched = (apps # {})
      /\ mirroredComponents = (IF apps = {} THEN <<>> ELSE cat)
      /\ staged = (IF apps = {} THEN NoFile ELSE XmlFile(cat))
      /\ localRefs = [r \in refs |-> CommitOf("flathub", r, 1)]
      /\ promotedNow = refs
      /\ attempted = {<<"flathub", r>> : r \in refs}
      /\ pullCount = [k \in {<<1, j, "app">> : j \in apps} |-> 1]
      /\ prevCall = (IF apps = {} THEN NoCall
                     ELSE [app |-> last, commit |-> CommitOf("flathub", last, 1),
                           outcome |-> "Promoted"])
      /\ logged = (IF apps = {} THEN "none" ELSE "fetched")

InitReconcile ==
  /\ \E cat \in ReconcileCatalogs : AfterMirroring(cat)
  /\ pc = "summary"
  /\ fatal = ""
  /\ remoteRefs = <<>> /\ files = <<>> /\ mirrorsDir = FALSE
  /\ upstream = 1 /\ layout = "remote" /\ faults = 0
  /\ fpPhase = "idle" /\ fpRepo = "" /\ fpApp = <<>> /\ commit = Null
  /\ fpResult = "none"
  /\ outcome = "none" /\ probes = <<>> /\ accepted = FALSE
  /\ cleanupErrors = 0 /\ refsAtCall = <<>>
  /\ manager = "either"
  /\ summary = NoSummary
  /\ rcIdx = 1
  /\ stageLog = <<>>
  /\ verified = NotVerified
  /\ budget = MaxReconcileFaults
  /\ LibIdle
  /\ ExtIdle

NextReconcile ==
  \/ CreateSummary
  \/ StageA
  \/ StageB
  \/ CommitRef
  \/ StageC
  \/ AddMetadata
  \/ VerifyAppstreamRefs
  \/ GenerateFlatpakrepoFile

SpecReconcile == InitReconcile /\ [][NextReconcile]_vars


\* ------------------------------------------- the reconciliation, run twice
\* generateAppstream and createSummary are run a second time on the store
\* the first run left, with the same mirroredComponents and no promotion in
\* between (index.js:106-120 again).
ReconcileAgain ==
  /\ pc = "repofile"
  /\ rcRun = 1
  /\ rcRun' = 2
  /\ firstRun' = RefState(localRefs, remoteRefs)
  /\ pc' = "generate"
  /\ UNCHANGED <<storeVars, remotes, fatal, remoteIdx, components, i,
                 appFetched, mirroredComponents, callVars, obsVars, pullCount,
                 rcVars, budget, libVars, initVars, mirrorVars, tailVars>>

InitTwice ==
  /\ \E cat \in ReconcileCatalogs : AfterMirroring(cat)
  /\ pc = "summary"
  /\ fatal = ""
  /\ remoteRefs = <<>> /\ files = <<>> /\ mirrorsDir = FALSE
  /\ upstream = 1 /\ layout = "remote" /\ faults = 0
  /\ fpPhase = "idle" /\ fpRepo = "" /\ fpApp = <<>> /\ commit = Null
  /\ fpResult = "none"
  /\ outcome = "none" /\ probes = <<>> /\ accepted = FALSE
  /\ cleanupErrors = 0 /\ refsAtCall = <<>>
  /\ manager \in Managers
  /\ summary = NoSummary
  /\ rcIdx = 1
  /\ stageLog = <<>>
  /\ verified = NotVerified
  /\ budget = MaxFaults
  /\ LibIdle
  /\ ExtIdle

NextTwice ==
  \/ GenerateAppstream
  \/ CreateSummary
  \/ StageA
  \/ StageB
  \/ CommitRef
  \/ StageC
  \/ AddMetadata
  \/ VerifyAppstreamRefs
  \/ ReconcileAgain

SpecTwice == InitTwice /\ [][NextTwice]_vars

\* ------------------------------------------------- index.js, run once more
\* index.js is started again on the store and the /tmp the earlier run
\* left: a new process, with a new mirroredComponents (index.js:21-27).
NextPass ==
  /\ pc = "done"
  /\ rcRun = 1
  /\ rcRun' = 2
  /\ firstRun' = RefState(localRefs, remoteRefs)
  /\ pc' = "fetchAppstream"
  /\ fatal' = ""
  /\ remoteIdx' = 1
  /\ components' = <<>>
  /\ i' = 1
  /\ appFetched' = FALSE
  /\ mirroredComponents' = <<>>
  /\ prevCall' = NoCall
  /\ promotedNow' = {}
  /\ attempted' = {}
  /\ logged' = "none"
  /\ pullCount' = <<>>
  /\ rcIdx' = 1
  /\ stageLog' = <<>>
  /\ verified' = NotVerified
  /\ UNCHANGED <<storeVars, remotes, callVars, outcome, probes,
                 accepted, cleanupErrors, refsAtCall, manager, summary,
                 budget, libVars, initVars, mirrorVars, tailVars>>

NextPasses ==
  \/ Next
  \/ NextPass

\* The first of the two runs starts on a new store with one remote.
InitPasses ==
  /\ Init
  /\ remotes = <<"flathub">>
  /\ layout = "remote"
  /\ ~mirrorsDir

SpecPasses == InitPasses /\ [][NextPasses]_vars

\* ----------------------------------------------------------------- initRepo
\* The remote lists config.repo_remotes may hold (names).
InitRepoConfigs ==
  { <<"flathub">>, <<"flathub", "fedora">>, <<"flathub-beta", "flathub">> }

\* A remote's name as the characters String.includes compares.
NameTokens(name) ==
  CASE name = "flathub" -> <<"flathub">>
    [] name = "flathub-beta" -> <<"flathub", "-beta">>
    [] name = "fedora" -> <<"fedora">>

\* stdout of `ostree remote list`: one name on each line
RECURSIVE RemoteListOutput(_)
RemoteListOutput(names) ==
  IF names = <<>> THEN <<>>
  ELSE NameTokens(Head(names)) \o <<"\n">> \o RemoteListOutput(Tail(names))

\* ostreeManager.js:50-55  remoteExists: the listing succeeded and its output
\* includes the name
RemoteExists(listed, names, name) ==
  listed /\ Includes(RemoteListOutput(names), NameTokens(name))

\* ostree remote add: an error when the name is configured already
OstreeRemoteAdd(names, name, ok) ==
  IF ~ok \/ name \in {names[k] : k \in 1..Len(names)}
  THEN [ok |-> FALSE, remotes |-> names]
  ELSE [ok |-> TRUE, remotes |-> Append(names, name)]

\* Mutant: ostree init is issued on every run.
NeedsInit_Always(objectsPresent) == TRUE

\* ostreeManager.js:16-23  needsInit: fs.access of the objects directory
\* failed
NeedsInit(objectsPresent) == ~objectsPresent

InitCmd(cmd, name, objectsPresent) ==
  [cmd |-> cmd, name |-> name, objects |-> objectsPresent]

\* ostreeManager.js:11-38  the objects directory is looked for and the store
\* initialized when it is missing; a failed ostree init is rethrown
InitStore ==
  /\ initPc = "access"
  /\ IF NeedsInit(objects)
     THEN /\ initCmds' = Append(initCmds, InitCmd("init", "", objects))
          /\ \E ok \in Outcomes :
               /\ faults' = faults + (IF ok THEN 0 ELSE 1)
               /\ objects' = (objects \/ ok)
               /\ storeMode' = (IF ok /\ ~objects THEN "archive-z2" ELSE storeMode)
               /\ initPc' = (IF ok THEN "structure" ELSE "threw")
     ELSE /\ initPc' = "structure"
          /\ UNCHANGED <<initCmds, faults, objects, storeMode>>
  /\ UNCHANGED <<refVars, passVars, runVars, mirrorVars, tailVars, initIdx, initRun, structure,
                 storeRemotes, prevInit>>

\* ostreeManager.js:41, 75-95  ensureFlatpakStructure: mkdir -p of the
\* appstream directories; a failure is only warned about
EnsureFlatpakStructure ==
  /\ initPc = "structure"
  /\ \E ok \in Outcomes :
       /\ faults' = faults + (IF ok THEN 0 ELSE 1)
       /\ structure' = (structure \/ ok)
  /\ initPc' = "remotes"
  /\ initIdx' = 1
  /\ UNCHANGED <<refVars, passVars, runVars, mirrorVars, tailVars, initRun, objects, storeMode,
                 storeRemotes, initCmds, prevInit>>

\* ostreeManager.js:44-72  one remote of the configuration: ostree remote
\* list (a failure is swallowed), then ostree remote add unless the remote
\* exists (a failure is rethrown); after the last remote initRepo returns
AddRemote ==
  /\ initPc = "remotes"
  /\ initIdx <= Len(remotes)
  /\ \E listed \in Outcomes :
       IF RemoteExists(listed, storeRemotes, remotes[initIdx])
       THEN /\ initPc' = (IF initIdx < Len(remotes) THEN "remotes" ELSE "returned")
            /\ UNCHANGED <<faults, storeRemotes, initCmds>>
       ELSE \E ok \in (IF listed THEN Outcomes ELSE {TRUE}) :
              LET added == OstreeRemoteAdd(storeRemotes, remotes[initIdx], ok)
              IN  /\ faults' = faults + (IF listed /\ ok THEN 0 ELSE 1)
                  /\ initCmds' = Append(initCmds,
                                        InitCmd("add", remotes[initIdx], objects))
                  /\ storeRemotes' = added.remotes
                  /\ initPc' = (IF ~added.ok THEN "threw"
                                ELSE IF initIdx < Len(remotes) THEN "remotes"
                                ELSE "returned")
  /\ initIdx' = initIdx + 1
  /\ UNCHANGED <<refVars, passVars, runVars, mirrorVars, tailVars, initRun, objects, storeMode,
                 structure, prevInit>>

\* index.js:21 in the next process: initRepo is run again on the store the
\* previous run left
InitRepoAgain ==
  /\ initPc \in {"returned", "threw"}
  /\ initRun < MaxInitRuns
  /\ initRun' = initRun + 1
  /\ prevInit' = [returned |-> initPc = "returned", objects |-> objects,
                  mode |-> storeMode, remotes |-> storeRemotes,
                  faults |-> faults]
  /\ initCmds' = <<>>
  /\ initIdx' = 1
  /\ initPc' = "access"
  /\ UNCHANGED <<storeVars, passVars, runVars, mirrorVars, tailVars, objects, storeMode, structure,
                 storeRemotes>>

\* ostreeManager.js:11  initRepo is called on a store that does not exist yet
InitInitRepo ==
  /\ remotes \in InitRepoConfigs
  /\ initPc = "access"
  /\ initIdx = 1
  /\ initRun = 1
  /\ objects = FALSE
  /\ storeMode = ""
  /\ structure = FALSE
  /\ storeRemotes = <<>>
  /\ initCmds = <<>>
  /\ prevInit = NoInit
  /\ localRefs = <<>> /\ upstream = 1 /\ layout = "remote" /\ faults = 0
  /\ remoteRefs = <<>> /\ files = <<>> /\ mirrorsDir = FALSE
  /\ staged = NoFile /\ xmlCache = NoFile
  /\ pc = "fetchAppstream" /\ fatal = ""
  /\ remoteIdx = 1 /\ components = <<>> /\ i = 1
  /\ appFetched = FALSE /\ mirroredComponents = <<>>
  /\ fpPhase = "idle" /\ fpRepo = "" /\ fpApp = <<>> /\ commit = Null
  /\ fpResult = "none"
  /\ outcome = "none" /\ probes = <<>> /\ accepted = FALSE
  /\ cleanupErrors = 0
  /\ refsAtCall = <<>> /\ prevCall = NoCall
  /\ promotedNow = {} /\ attempted = {} /\ logged = "none"
  /\ pullCount = <<>>
  /\ manager = "either"
  /\ summary = NoSummary
  /\ rcIdx = 1
  /\ stageLog = <<>>
  /\ verified = NotVerified
  /\ budget = MaxFaults
  /\ LibIdle
  /\ FirstRunOnly
  /\ MirrorIdle
  /\ TailIdle

NextInitRepo ==
  \/ InitStore
  \/ EnsureFlatpakStructure
  \/ AddRemote
  \/ InitRepoAgain

SpecInitRepo == InitInitRepo /\ [][NextInitRepo]_vars

\* ------------------------------------------ mirrorPackagesLibOnly (libflatpak)
\* Upper bound on the number of packages handed to mirrorPackagesLibOnly.
MaxPackages == 3

\* README, Key Features Implementation: "retried up to 3 times".
RetryLimit == 3

\* A package as the loop reads it: getName(), getArch(), getBranch().
LibPackage(k) ==
  [name |-> <<"org.example.App", k>>, arch |-> "x86_64", branch |-> "stable"]

PackageLists == {[k \in 1..n |-> LibPackage(k)] : n \in 1..MaxPackages}

\* `${pkg.getName()}/${pkg.getArch()}/${pkg.getBranch()}`
RefString(pkg) == pkg.name \o <<"/", pkg.arch, "/", pkg.branch>>

\* The messages of the errors the try block can end with.
BindingMessage == <<"Expected", "external", "object", "or", "null">>
AddFailedMessage == <<"Failed", "to", "add", "package", "to", "transaction">>
RunFalseMessage == <<"Transaction", "run", "failed", "(returned", "false)">>
RunThrewMessage == <<"While", "pulling:", "network", "error">>

\* What libflatpak does for one transaction: Transaction.create may throw,
\* addInstall may be missing from the binding, each add returns a boolean,
\* run returns a boolean or throws.
TransactionBehaviours ==
  [create : BOOLEAN, hasAddInstall : BOOLEAN, addInstall : BOOLEAN,
   addInstallFlatpakref : BOOLEAN, run : {"true", "false", "throws"}]

\* The try block: the message of the error it throws (<<>> when it completes)
\* and the number of transaction.run calls it made.
TryPackage(b) ==
  LET added1 == b.hasAddInstall /\ b.addInstall
      added  == added1 \/ b.addInstallFlatpakref
  IN  IF ~b.create THEN [error |-> BindingMessage, runs |-> 0]
      ELSE IF ~added THEN [error |-> AddFailedMessage, runs |-> 0]
      ELSE IF b.run = "true" THEN [error |-> <<>>, runs |-> 1]
      ELSE IF b.run = "false" THEN [error |-> RunFalseMessage, runs |-> 1]
      ELSE [error |-> RunThrewMessage, runs |-> 1]

\* The catch block's test for the known binding issue.
IsBindingIssue(message) ==
  \/ Includes(message, <<"Expected", "external", "object">>)
  \/ Includes(message, <<"Expected", "external", "object", "or", "null">>)

\* Mutant: a binding issue is counted as skipped and not listed.
Recorded_SkippedUnlisted(results, pkg, error) ==
  IF error = <<>>
  THEN [results EXCEPT !.success = @ + 1]
  ELSE IF IsBindingIssue(error)
  THEN [results EXCEPT !.skipped = @ + 1]
  ELSE [results EXCEPT !.failed = @ + 1,
          !.failures = Append(@, [ref |-> RefString(pkg), error |-> error])]

\* results after one iteration that ended with `error` for `pkg`.
Recorded(results, pkg, error) ==
  IF error = <<>>
  THEN [results EXCEPT !.success = @ + 1]
  ELSE IF IsBindingIssue(error)
  THEN [results EXCEPT !.skipped = @ + 1,
          !.failures = Append(@, [ref |-> RefString(pkg),
                                  error |-> <<"Binding", "issue:">> \o error])]
  ELSE [results EXCEPT !.failed = @ + 1,
          !.failures = Append(@, [ref |-> RefString(pkg), error |-> error])]

\* libflatpakMirror.js:285-382  one iteration of the package loop
MirrorPackage ==
  /\ libPc = "loop"
  /\ libIdx <= Len(libPackages)
  /\ \E b \in TransactionBehaviours :
       LET t == TryPackage(b)
       IN  /\ libResults' = Recorded(libResults, libPackages[libIdx], t.error)
           /\ libRuns' = Append(libRuns, t.runs)
  /\ libPc' = (IF libIdx < Len(libPackages) THEN "delay" ELSE "loop")
  /\ libIdx' = libIdx + 1
  /\ UNCHANGED <<libPackages, storeVars, mainVars, callVars, obsVars,
                 pullCount, rcVars, budget, extVars>>

\* libflatpakMirror.js:384-387  the delay between two packages
PackageDelay ==
  /\ libPc = "delay"
  /\ libPc' = "loop"
  /\ UNCHANGED <<libPackages, libIdx, libResults, libRuns, storeVars, mainVars,
                 callVars, obsVars, pullCount, rcVars, budget, extVars>>

\* libflatpakMirror.js:390  return results
ReturnResults ==
  /\ libPc = "loop"
  /\ libIdx > Len(libPackages)
  /\ libPc' = "returned"
  /\ UNCHANGED <<libPackages, libIdx, libResults, libRuns, storeVars, mainVars,
                 callVars, obsVars, pullCount, rcVars, budget, extVars>>

\* libflatpakMirror.js:264-284  mirrorPackagesLibOnly entered with a package list
InitLib ==
  /\ libPc = "loop"
  /\ libPackages \in PackageLists
  /\ libIdx = 1
  /\ libResults = [success |-> 0, failed |-> 0, skipped |-> 0, failures |-> <<>>]
  /\ libRuns = <<>>
  /\ localRefs = <<>> /\ upstream = 1 /\ layout = "remote" /\ faults = 0
  /\ remoteRefs = <<>> /\ files = <<>> /\ mirrorsDir = FALSE
  /\ staged = NoFile /\ xmlCache = NoFile
  /\ remotes = <<"flathub">>
  /\ pc = "fetchAppstream" /\ fatal = ""
  /\ remoteIdx = 1 /\ components = <<>> /\ i = 1
  /\ appFetched = FALSE /\ mirroredComponents = <<>>
  /\ fpPhase = "idle" /\ fpRepo = "" /\ fpApp = <<>> /\ commit = Null
  /\ fpResult = "none"
  /\ outcome = "none" /\ probes = <<>> /\ accepted = FALSE
  /\ cleanupErrors = 0
  /\ refsAtCall = <<>> /\ prevCall = NoCall
  /\ promotedNow = {} /\ attempted = {} /\ logged = "none"
  /\ pullCount = <<>>
  /\ manager = "either"
  /\ summary = NoSummary
  /\ rcIdx = 1
  /\ stageLog = <<>>
  /\ verified = NotVerified
  /\ budget = MaxFaults
  /\ ExtIdle

NextLib ==
  \/ MirrorPackage
  \/ PackageDelay
  \/ ReturnResults

SpecLib == InitLib /\ [][NextLib]_vars


\* --------------------------------------- mirrorFlatpakLibOnly (libflatpak)
\* config.architecture
Architecture == "x86_64"

\* A ref of the remote as the filter reads it: getKind() (0 an application,
\* 1 a runtime) and getArch(). Of the refs a remote lists, the second is a
\* runtime and the fourth is built for another architecture.
ListedRef(k) ==
  [name |-> <<"org.example.App", k>>,
   arch |-> (IF k = 4 THEN "aarch64" ELSE "x86_64"),
   branch |-> "stable",
   kind |-> (IF k = 2 THEN 1 ELSE 0)]

\* What listRemoteRefsSync may return.
RemoteListings == {[k \in 1..n |-> ListedRef(k)] : n \in 0..MaxListed}

\* The values of config.max_packages.
CapValues == 0..(MaxPackages + 1)

\* libflatpakMirror.js:153-158  applications of the target architecture
IsPackage(ref) == ref.kind = 0 /\ ref.arch = Architecture
FilterPackages(refs) == SelectSeq(refs, IsPackage)

\* Mutant: the limit is not applied.
PackagesToMirror_NoCap(packages, maxPackages) == packages

\* libflatpakMirror.js:163-171  packages.slice(0, config.max_packages) when
\* max_packages > 0, else every package
PackagesToMirror(packages, maxPackages) ==
  IF maxPackages > 0 THEN Slice(packages, maxPackages) ELSE packages

\* libflatpakMirror.js:234-249, 116, 149  process.exit(1)
ExitOne(step) ==
  /\ mfPc' = "exit1"
  /\ mfSteps' = [mfSteps EXCEPT !.exit = step]

\* libflatpakMirror.js:38-49, 475-517  mkdir -p of the repository path and
\* initializeRepository: an existing config file means an existing
\* repository; otherwise config, the directories and the summary are
\* written, and a failure at any of them is rethrown to the outer catch
PrepareRepository ==
  /\ mfPc = "prepare"
  /\ \/ /\ mfRepo \in {"config", "complete"}
        /\ mfPc' = "installations"
        /\ mfSteps' = [mfSteps EXCEPT !.init = "existing"]
        /\ UNCHANGED mfRepo
     \/ /\ mfRepo = "absent"
        /\ mfRepo' = "complete"
        /\ mfPc' = "installations"
        /\ mfSteps' = [mfSteps EXCEPT !.init = "created"]
     \/ /\ mfRepo = "absent"
        /\ mfRepo' \in {"absent", "config"}
        /\ mfPc' = "exit1"
        /\ mfSteps' = [mfSteps EXCEPT !.init = "failed", !.exit = "prepare"]
     \/ /\ UNCHANGED mfRepo
        /\ mfPc' = "exit1"
        /\ mfSteps' = [mfSteps EXCEPT !.init = "failed", !.exit = "prepare"]
  /\ UNCHANGED <<storeVars, passVars, runVars, initVars, tailVars, mfRemote, mfMax,
                 mfListed>>

\* libflatpakMirror.js:51-67  getSystemInstallations: none found is an error
GetInstallations ==
  /\ mfPc = "installations"
  /\ \/ /\ mfPc' = "remote"
        /\ UNCHANGED mfSteps
     \/ ExitOne("installations")
  /\ UNCHANGED <<storeVars, passVars, runVars, initVars, tailVars, mfRepo, mfRemote,
                 mfMax, mfListed>>

\* libflatpakMirror.js:69-118  the target remote is looked up and, when it is
\* not there, created: Remote.create or addRemote throwing exits, addRemote
\* returning false is logged and the run goes on
EnsureRemote ==
  /\ mfPc = "remote"
  /\ \/ /\ mfRemote
        /\ mfPc' = "update"
        /\ mfSteps' = [mfSteps EXCEPT !.remote = "found"]
        /\ UNCHANGED mfRemote
     \/ /\ ~mfRemote
        /\ mfRemote' = TRUE
        /\ mfPc' = "update"
        /\ mfSteps' = [mfSteps EXCEPT !.remote = "added"]
     \/ /\ ~mfRemote
        /\ mfPc' = "update"
        /\ mfSteps' = [mfSteps EXCEPT !.remote = "addFalse"]
        /\ UNCHANGED mfRemote
     \/ /\ ~mfRemote
        /\ mfPc' = "exit1"
        /\ mfSteps' = [mfSteps EXCEPT !.remote = "createThrew", !.exit = "remote"]
        /\ UNCHANGED mfRemote
  /\ UNCHANGED <<storeVars, passVars, runVars, initVars, tailVars, mfRepo, mfMax,
                 mfListed>>

\* Mutant: a failed metadata update ends the run.
AfterUpdate_FatalOnThrow(result) == IF result = "threw" THEN "exit1" ELSE "list"

\* libflatpakMirror.js:120-134  whatever updateRemoteSync does, the run goes
\* on to the listing
AfterUpdate(result) == "list"

\* libflatpakMirror.js:120-134  updateRemoteSync: true, false or an error
UpdateRemote ==
  /\ mfPc = "update"
  /\ \E result \in {"true", "false", "threw"} :
       /\ mfPc' = AfterUpdate(result)
       /\ mfSteps' = [mfSteps EXCEPT !.update = result,
                        !.exit = IF AfterUpdate(result) = "exit1"
                                 THEN "update" ELSE @]
  /\ UNCHANGED <<storeVars, passVars, runVars, initVars, tailVars, mfRepo, mfRemote,
                 mfMax, mfListed>>

\* libflatpakMirror.js:136-150  listRemoteRefsSync: an error (always, for a
\* remote the installation does not have) exits with code 1
ListRemoteRefs ==
  /\ mfPc = "list"
  /\ \/ /\ mfRemote
        /\ mfListed' \in RemoteListings
        /\ mfPc' = "appstream"
        /\ mfSteps' = [mfSteps EXCEPT !.listing = "ok"]
     \/ /\ mfPc' = "exit1"
        /\ mfSteps' = [mfSteps EXCEPT !.listing = "failed", !.exit = "list"]
        /\ UNCHANGED mfListed
  /\ UNCHANGED <<storeVars, passVars, runVars, initVars, tailVars, mfRepo, mfRemote,
                 mfMax>>

\* libflatpakMirror.js:173-178, 396-442  downloadAppStreamData: any failure
\* is caught inside it and an empty list returned
DownloadAppStreamData ==
  /\ mfPc = "appstream"
  /\ \E ok \in BOOLEAN :
       mfSteps' = [mfSteps EXCEPT !.appstream = IF ok THEN "ok" ELSE "failed"]
  /\ mfPc' = "mirror"
  /\ UNCHANGED <<storeVars, passVars, runVars, initVars, tailVars, mfRepo, mfRemote,
                 mfMax, mfListed>>

\* libflatpakMirror.js:152-171, 180-189  the packages are filtered and
\* limited and mirrorPackagesLibOnly is called with them
CallMirrorPackages ==
  /\ mfPc = "mirror"
  /\ libPc = "idle"
  /\ libPackages' = PackagesToMirror(FilterPackages(mfListed), mfMax)
  /\ libPc' = "loop"
  /\ libIdx' = 1
  /\ libResults' = [success |-> 0, failed |-> 0, skipped |-> 0, failures |-> <<>>]
  /\ libRuns' = <<>>
  /\ mfPc' = "mirroring"
  /\ UNCHANGED <<storeVars, mainVars, callVars, obsVars, pullCount, rcVars,
                 budget, runVars, initVars, tailVars, mfRepo, mfRemote, mfMax, mfListed,
                 mfSteps>>

\* libflatpakMirror.js:191-233  the results are reported and the run ends
ReportResults ==
  /\ mfPc = "mirroring"
  /\ libPc = "returned"
  /\ mfPc' = "done"
  /\ UNCHANGED <<storeVars, passVars, runVars, initVars, tailVars, mfRepo, mfRemote,
                 mfMax, mfListed, mfSteps>>

\* libflatpakMirror.js:18-35  mirrorFlatpakLibOnly is started: the
\* repository is new, complete, or holds only the config file an earlier
\* run wrote before it failed
InitMirror ==
  /\ mfPc = "prepare"
  /\ mfRepo \in {"absent", "config", "complete"}
  /\ mfRemote \in BOOLEAN
  /\ mfMax \in CapValues
  /\ mfListed = <<>>
  /\ mfSteps = NoSteps
  /\ LibIdle
  /\ localRefs = <<>> /\ upstream = 1 /\ layout = "remote" /\ faults = 0
  /\ remoteRefs = <<>> /\ files = <<>> /\ mirrorsDir = FALSE
  /\ staged = NoFile /\ xmlCache = NoFile
  /\ remotes = <<"flathub">>
  /\ pc = "idle" /\ fatal = ""
  /\ remoteIdx = 1 /\ components = <<>> /\ i = 1
  /\ appFetched = FALSE /\ mirroredComponents = <<>>
  /\ fpPhase = "idle" /\ fpRepo = "" /\ fpApp = <<>> /\ commit = Null
  /\ fpResult = "none"
  /\ outcome = "none" /\ probes = <<>> /\ accepted = FALSE
  /\ cleanupErrors = 0
  /\ refsAtCall = <<>> /\ prevCall = NoCall
  /\ promotedNow = {} /\ attempted = {} /\ logged = "none"
  /\ pullCount = <<>>
  /\ manager = "either"
  /\ summary = NoSummary
  /\ rcIdx = 1
  /\ stageLog = <<>>
  /\ verified = NotVerified
  /\ budget = 0
  /\ FirstRunOnly
  /\ InitRepoDone
  /\ TailIdle

NextMirror ==
  \/ PrepareRepository
  \/ GetInstallations
  \/ EnsureRemote
  \/ UpdateRemote
  \/ ListRemoteRefs
  \/ DownloadAppStreamData
  \/ CallMirrorPackages
  \/ MirrorPackage
  \/ PackageDelay
  \/ ReturnResults
  \/ ReportResults

SpecMirror == InitMirror /\ [][NextMirror]_vars

\* ----------------------------------------------------- the capped programs
\* index.js:21-24  a pass of index.js in which nothing fails
InitPass ==
  /\ localRefs = <<>>
  /\ upstream = 1
  /\ layout \in Layouts
  /\ faults = 0
  /\ remoteRefs = <<>>
  /\ files = <<>>
  /\ mirrorsDir \in BOOLEAN
  /\ staged = NoFile
  /\ xmlCache = NoFile
  /\ remotes \in Configs
  /\ pc = "fetchAppstream"
  /\ fatal = ""
  /\ remoteIdx = 1
  /\ components = <<>>
  /\ i = 1
  /\ appFetched = FALSE
  /\ mirroredComponents = <<>>
  /\ fpPhase = "idle" /\ fpRepo = "" /\ fpApp = <<>> /\ commit = Null
  /\ fpResult = "none"
  /\ outcome = "none" /\ probes = <<>> /\ accepted = FALSE
  /\ cleanupErrors = 0
  /\ refsAtCall = <<>> /\ prevCall = NoCall
  /\ promotedNow = {} /\ attempted = {} /\ logged = "none"
  /\ pullCount = <<>>
  /\ manager = "either"
  /\ summary = NoSummary
  /\ rcIdx = 1
  /\ stageLog = <<>>
  /\ verified = NotVerified
  /\ budget = 0
  /\ LibIdle
  /\ ExtIdle

\* Either program that limits what it mirrors: index.js or
\* mirrorFlatpakLibOnly.
InitCapped == InitPass \/ InitMirror

NextCapped ==
  \/ FetchAppstream
  \/ ComponentHead
  \/ CallApp
  \/ Pull
  \/ Scan
  \/ Known
  \/ RevParseStep
  \/ Promote
  \/ CleanupUnlink
  \/ CleanupDelete
  \/ AppSettled
  \/ CallRuntime
  \/ RuntimeSettled
  \/ PushComponent
  \/ PrepareRepository
  \/ GetInstallations
  \/ EnsureRemote
  \/ UpdateRemote
  \/ ListRemoteRefs
  \/ DownloadAppStreamData
  \/ CallMirrorPackages
  \/ MirrorPackage
  \/ PackageDelay
  \/ ReturnResults
  \/ ReportResults

SpecCapped == InitCapped /\ [][NextCapped]_vars



\* --------------------------------------------- the catalog of each remote
\* The catalogs the remotes' URLs serve.
ServedCatalogs == {<<CompA>>, <<CompB>>, <<CompD, CompA>>}

\* index.js:27-32  the for-of loop awaits fetchAppstream (the variant with
\* the /tmp/appstream.xml cache) for one remote after the other;
\* part_001:17-22  forEach(async) starts a callback per remote, each
\* awaiting fetchAppstream (the variant without the cache).
EntryPoints == {"forOf", "forEach"}

\* Whether the call for remote r may take a step: a forEach callback
\* whenever it is not waiting, a for-of iteration once the earlier ones are
\* through.
Turn(r) ==
  \/ entry = "forEach"
  \/ \A q \in 1..(r - 1) : cbPc[q] = "done"

Moved(r, to) == [cbPc EXCEPT ![r] = to]

\* fetchAppstream.js:11  fs.existsSync(xmlPath)
ExistsSync ==
  /\ \E r \in DOMAIN cbPc :
       /\ Turn(r)
       /\ cbPc[r] = "exists"
       /\ cbPc' = Moved(r, IF xmlCache.present THEN "read" ELSE "fetch")
  /\ UNCHANGED <<storeVars, passVars, runVars, initVars, mirrorVars, remoteVars, entry,
                 served, gzFile, buffer, appstream_data>>

\* fetchAppstream.js:32-38, 82-88  fetch(url): the remote's catalog, or a
\* response that is not ok
Download ==
  /\ \E r \in DOMAIN cbPc :
       /\ Turn(r)
       /\ cbPc[r] = "fetch"
       /\ \/ /\ buffer' = [buffer EXCEPT ![r] = XmlFile(served[r])]
             /\ cbPc' = Moved(r, "write")
          \/ /\ cbPc' = Moved(r, "threw")
             /\ UNCHANGED buffer
  /\ UNCHANGED <<storeVars, passVars, runVars, initVars, mirrorVars, remoteVars, entry,
                 served, gzFile, appstream_data>>

\* fetchAppstream.js:40, 90  fs.promises.writeFile(gzPath, buffer)
WriteGz ==
  /\ \E r \in DOMAIN cbPc :
       /\ Turn(r)
       /\ cbPc[r] = "write"
       /\ gzFile' = buffer[r]
       /\ cbPc' = Moved(r, "gunzip")
  /\ UNCHANGED <<storeVars, passVars, runVars, initVars, mirrorVars, remoteVars, entry,
                 served, buffer, appstream_data>>

\* fetchAppstream.js:42-49, 92-99  gzPath is piped through gunzip into
\* xmlPath (taken as one step: what gzPath holds when the pipe runs)
Gunzip ==
  /\ \E r \in DOMAIN cbPc :
       /\ Turn(r)
       /\ cbPc[r] = "gunzip"
       /\ xmlCache' = gzFile
       /\ cbPc' = Moved(r, "read")
  /\ UNCHANGED <<localRefs, remoteRefs, files, mirrorsDir, staged, upstream,
                 layout, faults, passVars, runVars, initVars, mirrorVars,
                 remoteVars, entry, served, gzFile, buffer, appstream_data>>

\* fetchAppstream.js:14-25, 50-61, 100-111  xmlPath is read and parsed
ReadXml ==
  /\ \E r \in DOMAIN cbPc :
       /\ Turn(r)
       /\ cbPc[r] = "read"
       /\ appstream_data' = [appstream_data EXCEPT ![r] = xmlCache]
       /\ cbPc' = Moved(r, "done")
  /\ UNCHANGED <<storeVars, passVars, runVars, initVars, mirrorVars, remoteVars, entry,
                 served, gzFile, buffer>>

\* The remotes serve their catalogs; /tmp may hold the appstream.xml of an
\* earlier run.
InitCatalogs ==
  /\ entry \in EntryPoints
  /\ remotes \in Configs
  /\ served \in [1..Len(remotes) -> ServedCatalogs]
  /\ xmlCache \in {NoFile} \cup {XmlFile(cat) : cat \in ServedCatalogs}
  /\ gzFile = NoFile
  /\ cbPc = [r \in 1..Len(remotes) |->
               IF entry = "forOf" THEN "exists" ELSE "fetch"]
  /\ buffer = [r \in 1..Len(remotes) |-> NoFile]
  /\ appstream_data = [r \in 1..Len(remotes) |-> NoFile]
  /\ localRefs = <<>> /\ upstream = 1 /\ layout = "remote" /\ faults = 0
  /\ remoteRefs = <<>> /\ files = <<>> /\ mirrorsDir = FALSE
  /\ staged = NoFile
  /\ pc = "fetchAppstream" /\ fatal = ""
  /\ remoteIdx = 1 /\ components = <<>> /\ i = 1
  /\ appFetched = FALSE /\ mirroredComponents = <<>>
  /\ fpPhase = "idle" /\ fpRepo = "" /\ fpApp = <<>> /\ commit = Null
  /\ fpResult = "none"
  /\ outcome = "none" /\ probes = <<>> /\ accepted = FALSE
  /\ cleanupErrors = 0
  /\ refsAtCall = <<>> /\ prevCall = NoCall
  /\ promotedNow = {} /\ attempted = {} /\ logged = "none"
  /\ pullCount = <<>>
  /\ manager = "either"
  /\ summary = NoSummary
  /\ rcIdx = 1
  /\ stageLog = <<>>
  /\ verified = NotVerified
  /\ budget = 0
  /\ LibIdle
  /\ FirstRunOnly
  /\ InitRepoDone
  /\ MirrorIdle
  /\ RemoteIdle

NextCatalogs ==
  \/ ExistsSync
  \/ Download
  \/ WriteGz
  \/ Gunzip
  \/ ReadXml

SpecCatalogs == InitCatalogs /\ [][NextCatalogs]_vars

\* ------------------------------------------------- addRemote (flatpakLib.js)
\* The values options.noGpgVerify is given.
JsValues == {"undefined", "null", "true", "false"}

\* ToBoolean of such a value
IsTruthy(v) == v = "true"

\* flatpakLib.js:92-96  setGpgVerify(false) unless noGpgVerify is false
\* itself; otherwise the Remote object keeps the library's default
BindingGpgVerify(noGpgVerify) ==
  IF noGpgVerify # "false" THEN "false" ELSE "default"

\* flatpakLib.js:516  gpg-verify=${options.noGpgVerify ? "false" : "true"}
ManualGpgVerify(noGpgVerify) ==
  IF IsTruthy(noGpgVerify) THEN "false" ELSE "true"

\* flatpakLib.js:112-140  the catch block: the fallback for the known
\* binding issue, the error rethrown otherwise
Caught(bindingIssue) == IF bindingIssue THEN "fallback" ELSE "threw"

\* flatpakLib.js:58-67  getSystemInstallations: an installation, none, or
\* the bindings throw
GetInstallation ==
  /\ arPc = "installations"
  /\ \E got \in {"one", "none", "bindingIssue"} :
       arPc' = (CASE got = "one" -> "listRemotes"
                  [] got = "none" -> Caught(FALSE)
                  [] got = "bindingIssue" -> Caught(TRUE))
  /\ UNCHANGED <<storeVars, passVars, runVars, initVars, mirrorVars,
                 catalogVars, options, arRemote, arConfig>>

\* flatpakLib.js:70-78  the remote exists already: return true
CheckExisting ==
  /\ arPc = "listRemotes"
  /\ \E existing \in BOOLEAN :
       IF existing
       THEN /\ arPc' = "returned"
            /\ arConfig' = [made |-> TRUE, via |-> "existing", gpgVerify |-> "default"]
       ELSE /\ arPc' = "create"
            /\ UNCHANGED arConfig
  /\ UNCHANGED <<storeVars, passVars, runVars, initVars, mirrorVars,
                 catalogVars, options, arRemote>>

\* flatpakLib.js:80-99  Remote.create and the setters
CreateRemote ==
  /\ arPc = "create"
  /\ \/ /\ arRemote' = [made |-> TRUE, via |-> "bindings",
                         gpgVerify |-> BindingGpgVerify(options.noGpgVerify)]
        /\ arPc' = "add"
     \/ /\ arPc' = Caught(TRUE)
        /\ UNCHANGED arRemote
  /\ UNCHANGED <<storeVars, passVars, runVars, initVars, mirrorVars,
                 catalogVars, options, arConfig>>

\* flatpakLib.js:101-110  installation.addRemote: true, false, or a throw
InstallationAddRemote ==
  /\ arPc = "add"
  /\ \E added \in {"true", "false", "bindingIssue", "error"} :
       /\ arPc' = (CASE added = "true" -> "returned"
                      [] added = "false" -> Caught(FALSE)
                      [] added = "bindingIssue" -> Caught(TRUE)
                      [] added = "error" -> Caught(FALSE))
       /\ arConfig' = (IF added = "true" THEN arRemote ELSE arConfig)
  /\ UNCHANGED <<storeVars, passVars, runVars, initVars, mirrorVars,
                 catalogVars, options, arRemote>>

\* flatpakLib.js:127-137, 504-521  createRemoteConfig writes the remote's
\* config file; its failure is rethrown
CreateRemoteConfig ==
  /\ arPc = "fallback"
  /\ \/ /\ arConfig' = [made |-> TRUE, via |-> "manual",
                         gpgVerify |-> ManualGpgVerify(options.noGpgVerify)]
        /\ arPc' = "returned"
     \/ /\ arPc' = "threw"
        /\ UNCHANGED arConfig
  /\ UNCHANGED <<storeVars, passVars, runVars, initVars, mirrorVars,
                 catalogVars, options, arRemote>>

\* flatpakLib.js:55  addRemote is called with some options
InitAddRemote ==
  /\ arPc = "installations"
  /\ options \in [noGpgVerify : JsValues, title : BOOLEAN, comment : BOOLEAN]
  /\ arRemote = NoRemote
  /\ arConfig = NoRemote
  /\ remotes = <<"flathub">>
  /\ localRefs = <<>> /\ upstream = 1 /\ layout = "remote" /\ faults = 0
  /\ remoteRefs = <<>> /\ files = <<>> /\ mirrorsDir = FALSE
  /\ staged = NoFile /\ xmlCache = NoFile
  /\ pc = "fetchAppstream" /\ fatal = ""
  /\ remoteIdx = 1 /\ components = <<>> /\ i = 1
  /\ appFetched = FALSE /\ mirroredComponents = <<>>
  /\ fpPhase = "idle" /\ fpRepo = "" /\ fpApp = <<>> /\ commit = Null
  /\ fpResult = "none"
  /\ outcome = "none" /\ probes = <<>> /\ accepted = FALSE
  /\ cleanupErrors = 0
  /\ refsAtCall = <<>> /\ prevCall = NoCall
  /\ promotedNow = {} /\ attempted = {} /\ logged = "none"
  /\ pullCount = <<>>
  /\ manager = "either"
  /\ summary = NoSummary
  /\ rcIdx = 1
  /\ stageLog = <<>>
  /\ verified = NotVerified
  /\ budget = 0
  /\ LibIdle
  /\ FirstRunOnly
  /\ InitRepoDone
  /\ MirrorIdle
  /\ CatalogIdle

NextAddRemote ==
  \/ GetInstallation
  \/ CheckExisting
  \/ CreateRemote
  \/ InstallationAddRemote
  \/ CreateRemoteConfig

SpecAddRemote == InitAddRemote /\ [][NextAddRemote]_vars

\* ------------------------------------------------------------------ claims
\* The PackageRefs index.js derives from a component list (index.js:46-73).
DerivedRefs(comps) ==
  {AppRef(comps[k].id) : k \in {j \in 1..Len(comps) :
      comps[j].bundle # NoBundle /\ comps[j].bundle.type = "flatpak"}}
  \cup
  {RuntimeRef(comps[k].bundle.runtime) : k \in {j \in 1..Len(comps) :
      comps[j].bundle # NoBundle /\ comps[j].bundle.runtime # ""}}

\* The positions of the script inside createSummary.
ReconcilePcs == {"stageA", "stageB", "commitRef", "stageC", "metadata", "verify"}

\* The component loop of every remote has run to its end.
LoopOver ==
  \/ pc \in {"generate", "summary", "repofile", "done"} \cup ReconcilePcs
  \/ pc = "crashed" /\ fatal \in {"generateAppstream", "createSummary"}

\* Resolution of the current call is over and nothing was written since.
Resolved == fpPhase = "promote"

HasLocalRef(app, c) == app \in DOMAIN localRefs /\ localRefs[app] = c

\* C1: a component is in mirroredComponents only if its app PackageRef was
\* promoted (its LocalRef created by fetchPackage) in this run.
C1_MirroredOnlyIfPromoted ==
  \A k \in 1..Len(mirroredComponents) :
    AppRef(mirroredComponents[k].id) \in promotedNow

\* C2: the catalog generateAppstream wrote in this pass contains a component
\* only if that component's app PackageRef was promoted in this pass.
C2_CatalogOnlyPromoted ==
  staged.present =>
    \A k \in 1..Len(staged.components) :
      /\ AppRef(staged.components[k].id) \in promotedNow
      /\ AppRef(staged.components[k].id) \in DOMAIN localRefs

\* C3: partial-failure isolation. Once the component loops are over, every
\* PackageRef derived from the (sliced) catalog was attempted on every
\* remote, whatever failed before it; a call whose pull succeeded, whose
\* commit was resolved and whose ref write the store took has returned with
\* its LocalRef created; every promoted ref still exists; and nothing a
\* fetchPackage call threw ended the process.
C3_PartialFailureIsolation ==
  /\ LoopOver =>
       attempted = {<<remotes[k], r>> :
                      k \in 1..Len(remotes),
                      r \in DerivedRefs(Slice(xmlCache.components, SliceCap))}
  /\ (fpPhase = "done" /\ outcome # "PullFailed" /\ Truthy(commit) /\ accepted) =>
       fpResult = "returned" /\ HasLocalRef(fpApp, commit)
  /\ promotedNow \subseteq DOMAIN localRefs
  /\ pc = "crashed" =>
       fatal \in {"fetchAppstream", "slice", "generateAppstream", "createSummary"}

\* C3 witness: the pass ended, its last call promoted a ref, and an earlier
\* attempt at another ref failed (that ref was never promoted).
C3_Witness ==
  /\ pc = "done"
  /\ prevCall.outcome = "Promoted"
  /\ \E a \in attempted : a[2] \notin promotedNow /\ a[2] # prevCall.app
  /\ faults > 0

\* The probes of one strategy.
ProbesOf(n) == {j \in 1..Len(probes) : probes[j].strategy = n}

\* C4: resolution tries the scan, then the known paths in their listed
\* order up to the first that exists and is a regular file, then rev-parse
\* of remote:ref and of the bare ref; a later strategy is consulted only if
\* every earlier one yielded no commit, and the commit is the first yield.
C4_StrictOrder ==
  Resolved =>
    /\ Len(probes) >= 1 /\ probes[1].strategy = 1
    /\ Cardinality(ProbesOf(1)) = 1
    /\ \A j \in 1..Len(probes), k \in 1..Len(probes) :
         j < k =>
           /\ probes[j].strategy <= probes[k].strategy
           /\ probes[j].strategy = probes[k].strategy =>
                /\ probes[j].index < probes[k].index
                /\ k = j + 1 => probes[k].index = probes[j].index + 1
                /\ ~probes[j].hit
           /\ probes[j].strategy < probes[k].strategy => ~Truthy(probes[j].yield)
    /\ \A j \in ProbesOf(2) :
         LET path == << <<"refs/mirrors/", "org.", fpRepo, ".Stable/">> \o fpApp,
                        <<"refs/mirrors/", fpRepo, ".Stable/">> \o fpApp,
                        <<"refs/mirrors/", fpRepo, "/">> \o fpApp,
                        <<fpRepo, ":">> \o fpApp >>[probes[j].index]
             regular == path \in DOMAIN files /\ files[path].isFile
         IN  /\ probes[j].hit = regular
             /\ probes[j].yield = IF regular THEN Trim(files[path].data) ELSE Null
    /\ \A j \in ProbesOf(3) :
         LET spec == IF probes[j].index = 1 THEN <<fpRepo, ":">> \o fpApp ELSE fpApp
         IN  /\ probes[j].index \in {1, 2}
             /\ probes[j].yield = RevParse(localRefs, remoteRefs, spec)
             /\ probes[j].hit = (probes[j].yield # Null)
    /\ \A j \in 1..Len(probes) : Truthy(probes[j].yield) => commit = probes[j].yield
    /\ Truthy(commit) => \E j \in 1..Len(probes) : probes[j].yield = commit
    /\ (ProbesOf(2) # {}) => probes[Cardinality(ProbesOf(1)) + 1].index = 1
    /\ (ProbesOf(3) # {}) =>
         probes[Len(probes) - Cardinality(ProbesOf(3)) + 1].index = 1

\* C4 witness: every strategy was consulted in turn and the last one, the
\* rev-parse of the bare ref, gave the commit.
C4_Witness ==
  /\ Resolved
  /\ Len(probes) = 7
  /\ probes[7].strategy = 3 /\ probes[7].index = 2 /\ probes[7].hit
  /\ commit = probes[7].yield

\* No transient file would give a commit for the ref of the current call.
NoFileYields ==
  /\ \A f \in FindFilesRecursive(files, fpApp) : ~Truthy(Trim(files[f].data))
  /\ \A j \in 1..4 :
       LET path == KnownPaths(fpRepo, fpApp)[j]
       IN  (path \in DOMAIN files /\ files[path].isFile) =>
             ~Truthy(Trim(files[path].data))

RevParseWouldSucceed ==
  \/ RevParse(localRefs, remoteRefs, <<fpRepo, ":">> \o fpApp) # Null
  \/ RevParse(localRefs, remoteRefs, fpApp) # Null

\* C5: whenever no transient file yields a commit and rev-parse would
\* succeed, resolution ends at the rev-parse step with that commit, however
\* the scan of refs/mirrors went.
C5_FallbackReached ==
  ( /\ fpPhase = "promote" \/ (fpPhase = "done" /\ outcome = "ScanFailed")
    /\ NoFileYields
    /\ RevParseWouldSucceed ) =>
      /\ fpPhase = "promote"
      /\ ProbesOf(3) # {}
      /\ Truthy(commit)
      /\ commit = probes[Len(probes)].yield

\* C6 as claimed: when refs/mirrors does not exist, no known path is probed.
C6_SkipsToRevParse ==
  (Resolved /\ ~mirrorsDir) => ProbesOf(2) = {}

\* C6 as amended: when refs/mirrors does not exist the scan is skipped and
\* the known paths are still probed in order; the three below refs/mirrors
\* do not exist, so only the direct remote:ref path can give the commit, and
\* rev-parse is consulted exactly when it gave none.
C6_KnownPathsStillProbed ==
  (Resolved /\ ~mirrorsDir) =>
    /\ probes[1] = Probe(1, 0, FALSE, Null)
    /\ Len(probes) >= 5
    /\ \A j \in 1..3 : probes[j + 1] = Probe(2, j, FALSE, Null)
    /\ probes[5].strategy = 2 /\ probes[5].index = 4
    /\ (ProbesOf(3) # {}) = ~Truthy(probes[5].yield)

\* C6 witness: refs/mirrors is absent and the commit came from the direct
\* remote:ref path.
C6_Witness ==
  /\ Resolved
  /\ ~mirrorsDir
  /\ Len(probes) = 5
  /\ probes[5].hit
  /\ Truthy(commit) /\ commit = probes[5].yield

\* C7: the orchestrator's record of every settled attempt tells Promoted
\* from the failures: an attempt is recorded as fetched exactly when it was
\* promoted, and as failed when its pull, resolution or promotion failed.
C7_OutcomeRecorded ==
  logged # "none" =>
    (logged = "fetched") = (prevCall.outcome = "Promoted")

\* C8: a second fetchPackage of ref P right after one that promoted P to C,
\* resolving the same C, leaves the local refs as the first left them, with
\* P at C.
C8_IdempotentPromotion ==
  ( /\ fpPhase = "done"
    /\ outcome \in {"Promoted", "PromotionFailed"}
    /\ prevCall.outcome = "Promoted"
    /\ prevCall.app = fpApp
    /\ prevCall.commit = commit ) =>
      /\ localRefs = refsAtCall
      /\ HasLocalRef(fpApp, commit)

\* C8 witness: the second call promoted again.
C8_Witness ==
  /\ fpPhase = "done"
  /\ outcome = "Promoted"
  /\ prevCall.outcome = "Promoted"
  /\ prevCall.app = fpApp
  /\ prevCall.commit = commit
  /\ HasLocalRef(fpApp, commit)

\* C9: a call that returns having resolved a commit leaves LocalRef P at
\* that commit, whatever P pointed at before; the create is forced, so it
\* fails only when the store rejects the write, never because P exists.
C9_OverwriteOnChange ==
  /\ (fpPhase = "done" /\ fpResult = "returned" /\ Truthy(commit)) =>
       HasLocalRef(fpApp, commit)
  /\ (fpPhase = "done" /\ outcome = "PromotionFailed") => ~accepted

\* C9 witness: P pointed at another commit when the call started.
C9_Witness ==
  /\ fpPhase = "done"
  /\ fpResult = "returned"
  /\ fpApp \in DOMAIN refsAtCall
  /\ refsAtCall[fpApp] # commit
  /\ HasLocalRef(fpApp, commit)

\* C10: once the ref write succeeded, whatever fails inside
\* cleanupMirroredRefs, the call returns normally and the LocalRef stays at
\* the promoted commit.
C10_CleanupAdvisory ==
  /\ (fpPhase \in {"cleanup", "cleanupDelete", "done"} /\ accepted) =>
       /\ fpResult # "threw"
       /\ HasLocalRef(fpApp, commit)
  /\ (fpPhase = "done" /\ accepted) => fpResult = "returned" /\ outcome = "Promoted"

\* C10 witness: all three unlinks and the store-level delete failed, and
\* the call returned.
C10_Witness ==
  /\ fpPhase = "done"
  /\ accepted
  /\ cleanupErrors = 4
  /\ fpResult = "returned"

\* The entries of the log of createSummary that belong to the given stages.
LogOf(stages) == {k \in 1..Len(stageLog) : stageLog[k].stage \in stages}

\* Stage A was attempted before entry k of the log, and failed.
AfterFailedA(k) ==
  \E j \in 1..(k - 1) : stageLog[j].stage = "A" /\ ~stageLog[j].ok

\* Stage A succeeded in this createSummary.
StageASucceeded == \E j \in LogOf({"A"}) : stageLog[j].ok

\* C11 as claimed: every catalog-ref commit (B) and every summary
\* recomputation or metadata key (C) comes after a failed attempt of
\* build-update-repo (A), and none happens when A succeeded.
C11_LadderOrder ==
  /\ \A k \in LogOf({"B", "C", "K"}) : AfterFailedA(k)
  /\ StageASucceeded => LogOf({"B", "C", "K"}) = {}

\* C11 as amended: build-update-repo is attempted once; the summary
\* recomputation and the metadata keys come only after it failed, in both
\* versions of createSummary. The catalog-ref commits come only after it
\* failed in ostreeManager.js; in the other version they are made first,
\* before build-update-repo is attempted at all, whatever it then does.
C11_LadderByVersion ==
  /\ Cardinality(LogOf({"A"})) <= 1
  /\ \A k \in LogOf({"C", "K"}) : AfterFailedA(k)
  /\ StageASucceeded => LogOf({"C", "K"}) = {}
  /\ manager = "ostreeManager" =>
       /\ \A k \in LogOf({"B"}) : AfterFailedA(k)
       /\ StageASucceeded => LogOf({"B"}) = {}
  /\ manager = "part_000" =>
       \A k \in LogOf({"B"}), j \in LogOf({"A"}) : k < j

\* C11 witness: build-update-repo failed and createSummary of
\* ostreeManager.js went through the commits, the summary and the keys.
C11_Witness ==
  /\ pc = "repofile"
  /\ manager = "ostreeManager"
  /\ stageLog[1] = StageEntry("A", 0, FALSE)
  /\ LogOf({"B"}) # {} /\ LogOf({"C"}) # {} /\ LogOf({"K"}) # {}

\* The stages of the entries of the log, with their items, in order.
LogSteps == [k \in 1..Len(stageLog) |-> <<stageLog[k].stage, stageLog[k].item>>]

\* C12: the two catalog refs are committed independently. Once the active
\* directory was read and holds the catalog, both refs are attempted, first
\* appstream/x86_64 and then appstream2/x86_64, whatever the outcome of
\* either; a ref whose commit succeeded points at the staged catalog and one
\* whose commit failed was left alone; no failed commit ends createSummary
\* (only a failed summary recomputation does), and in ostreeManager.js the
\* read of the active directory follows the failure of build-update-repo.
C12_IndependentCommits ==
  /\ \A k \in LogOf({"R"}) :
       (stageLog[k].ok /\ staged.present /\ (pc = "commitRef" => rcIdx = 2)) =>
         /\ k + 1 <= Len(stageLog)
         /\ LogSteps[k + 1] = <<"B", 1>>
  /\ \A k \in LogOf({"B"}) :
       /\ stageLog[k].item = 1 =>
            (pc # "commitRef" => (k + 1 <= Len(stageLog) /\ LogSteps[k + 1] = <<"B", 2>>))
       /\ stageLog[k].item = 2 => (k > 1 /\ LogSteps[k - 1] = <<"B", 1>>)
       /\ stageLog[k].ok =>
            HasLocalRef(CatalogRefNames[stageLog[k].item], TreeCommit(staged))
       /\ ~stageLog[k].ok =>
            CatalogRefNames[stageLog[k].item] \notin DOMAIN localRefs
  /\ Cardinality(LogOf({"B"})) <= 2
  /\ (pc = "crashed" /\ fatal = "createSummary") =>
       stageLog[Len(stageLog)] = StageEntry("C", 0, FALSE)
  /\ (manager = "ostreeManager" /\ stageLog # <<>> /\ ~stageLog[1].ok
        /\ pc # "stageB") =>
       (Len(stageLog) >= 2 /\ stageLog[2].stage = "R")

\* C12 witness: build-update-repo failed, the commit to appstream/x86_64
\* failed, the commit to appstream2/x86_64 succeeded and createSummary went
\* on to its end.
C12_Witness ==
  /\ pc = "repofile"
  /\ StageEntry("A", 0, FALSE) \in {stageLog[k] : k \in 1..Len(stageLog)}
  /\ StageEntry("B", 1, FALSE) \in {stageLog[k] : k \in 1..Len(stageLog)}
  /\ StageEntry("B", 2, TRUE) \in {stageLog[k] : k \in 1..Len(stageLog)}
  /\ HasLocalRef(CatalogRefNames[2], TreeCommit(staged))
  /\ CatalogRefNames[1] \notin DOMAIN localRefs

\* C13: when verifyAppstreamRefs listed the refs, it reports a catalog ref
\* as missing exactly when the store's ref list does not hold it, and
\* reports success only when both are held.
C13_VerificationExact ==
  (verified.ran /\ verified.listed) =>
    /\ \A k \in 1..2 :
         (k \in verified.missing) =
           (CatalogRefNames[k] \notin ListRefs(localRefs, remoteRefs))
    /\ verified.ok =>
         \A k \in 1..2 : CatalogRefNames[k] \in ListRefs(localRefs, remoteRefs)

\* C14: once initRepo has succeeded, nothing that fails in a pass of
\* index.js ends the process: the pass never stops on an unhandled
\* rejection.
C14_PassCompletes == pc # "crashed"

\* The positions of the script from generateAppstream on.
AfterLoopPcs == {"generate", "summary", "repofile", "done"} \cup ReconcilePcs

\* C15: generateAppstream and createSummary start only after the mirroring
\* pass: from generateAppstream on no fetchPackage call is in flight and
\* every PackageRef of every component of every remote has been attempted
\* and has settled; and while a call is in flight nothing of the
\* reconciliation has been written.
C15_ReconcileAfterMirroring ==
  /\ pc \in AfterLoopPcs =>
       /\ fpPhase = "idle"
       /\ remoteIdx = Len(remotes) /\ i = Len(components) + 1
       /\ attempted = {<<remotes[k], r>> :
                         k \in 1..Len(remotes),
                         r \in DerivedRefs(Slice(xmlCache.components, SliceCap))}
  /\ fpPhase # "idle" =>
       /\ pc \notin AfterLoopPcs
       /\ staged = NoFile /\ stageLog = <<>> /\ summary = NoSummary

\* C15 witness: createSummary is committing the catalog refs after a pass
\* over two remotes in which several refs were attempted.
C15_Witness ==
  /\ pc = "commitRef"
  /\ Len(remotes) = 2
  /\ Cardinality(attempted) >= 2
  /\ fpPhase = "idle"

\* The operations on the store that are in progress.
InProgress ==
  (IF fpPhase \notin {"idle", "done"} THEN {"fetchPackage"} ELSE {})
    \cup (IF pc \in ReconcilePcs THEN {"createSummary"} ELSE {})
    \cup (IF pc = "generate" THEN {"generateAppstream"} ELSE {})

\* C16: single writer. At most one operation on the store is in progress at
\* any moment; a fetchPackage call is issued only when none is in flight,
\* and the script moves on from a call only when that call has settled.
C16_SingleWriter ==
  /\ [](Cardinality(InProgress) <= 1)
  /\ [](fpPhase \notin {"idle", "done"} => pc \in {"appWait", "runtimeWait"})
  /\ [][(fpPhase' = "pull" /\ fpPhase # "pull") => fpPhase = "idle"]_vars
  /\ [][(pc \in {"appWait", "runtimeWait"} /\ pc' # pc) => fpPhase = "done"]_vars

\* C16 witness: the store-level delete of a second call is about to run,
\* after an earlier call created its local ref.
C16_Witness ==
  /\ fpPhase = "cleanupDelete"
  /\ pc = "runtimeWait"
  /\ promotedNow \ {fpApp} # {}

\* C17: no retry within a run. index.js issues at most one fetchPackage call
\* for each PackageRef it derives from a component, and a component whose
\* app attempt failed is not taken into the mirrored set.
C17_NoRetry ==
  /\ \A k \in DOMAIN pullCount : pullCount[k] <= 1
  /\ (pc = "runtime" /\ components[i].bundle.type = "flatpak"
        /\ prevCall.outcome # "Promoted") => ~appFetched

\* C19: the only refs handed to fetchPackage are the app ref of a flatpak
\* component and the runtime ref of a component naming a runtime; the sdk of
\* a component is never fetched.
C19_SdkNeverPulled ==
  LET comps == Slice(xmlCache.components, SliceCap)
  IN  /\ \A a \in attempted :
           /\ a[1] \in {remotes[k] : k \in 1..Len(remotes)}
           /\ a[2] \in DerivedRefs(comps)
      /\ \A k \in 1..Len(comps) :
           (comps[k].bundle # NoBundle /\ comps[k].bundle.sdk # "") =>
             \A a \in attempted : a[2] # RuntimeRef(comps[k].bundle.sdk)

\* C19 witness: a component naming an sdk has been processed and its
\* runtime was fetched.
C19_Witness ==
  /\ pc = "push"
  /\ components[i].bundle.sdk # ""
  /\ <<remotes[remoteIdx], RuntimeRef(components[i].bundle.runtime)>> \in attempted

\* C20: the metadata keys are independent. After a successful summary
\* recomputation xa.title, xa.comment and xa.homepage are attempted one at a
\* time in that order, each exactly once whatever the others did; the
\* summary holds exactly the keys whose command succeeded, and no failed key
\* raises out of createSummary.
C20_KeysIndependent ==
  /\ \A k \in LogOf({"C"}) :
       stageLog[k].ok =>
         \A n \in 1..3 :
           (pc # "metadata" \/ rcIdx > n) =>
             /\ k + n <= Len(stageLog)
             /\ LogSteps[k + n] = <<"K", n>>
  /\ \A k \in LogOf({"K"}) :
       /\ k > stageLog[k].item
       /\ stageLog[k - stageLog[k].item] = StageEntry("C", 0, TRUE)
       /\ stageLog[k].ok = (MetadataKeys[stageLog[k].item] \in summary.keys)
  /\ Cardinality(LogOf({"K"})) <= 3
  /\ pc = "crashed" => LogOf({"K"}) = {}

\* C20 witness: xa.title and xa.homepage failed, xa.comment was added, and
\* createSummary returned.
C20_Witness ==
  /\ pc = "repofile"
  /\ summary.keys = {"xa.comment"}
  /\ Cardinality(LogOf({"K"})) = 3

\* The packages whose download failed: transaction.run was reached and the
\* package is listed in results.failures.
DownloadFailed ==
  {k \in 1..Len(libRuns) :
     /\ libRuns[k] >= 1
     /\ \E f \in 1..Len(libResults.failures) :
          libResults.failures[f].ref = RefString(libPackages[k])}

\* C18: a package whose download fails is retried, up to RetryLimit times,
\* before it is recorded as failed in the mirroring results: every package
\* recorded after a failed transaction.run had more than one run, and at most
\* one run plus RetryLimit retries.
C18_RetriedBeforeFailed ==
  \A k \in DownloadFailed :
    /\ libRuns[k] > 1
    /\ libRuns[k] <= 1 + RetryLimit

\* C21: reconciliation is idempotent. generateAppstream and createSummary run
\* a second time, with the same mirroredComponents, no promotion in between
\* and nothing failing in either run, leave the ref list of the store and the
\* commits of the two catalog refs as the first run left them.
C21_ReconcileIdempotent ==
  (rcRun = 2 /\ pc = "repofile" /\ faults = 0) =>
    RefState(localRefs, remoteRefs) = firstRun

\* The entries of the log that recomputed the summary.
Recomputations == {k \in LogOf({"A", "C"}) : stageLog[k].ok}

\* C22: summary coverage by ordering. In every path of createSummary the
\* catalog is staged, the active directory is read and the catalog refs are
\* committed before the summary is recomputed (by build-update-repo or by
\* ostree summary -u); the summary exists exactly when it was recomputed; no
\* ref is created after the recomputation, so the summary lists the refs of
\* the store, among them every LocalRef promoted in the pass and every
\* catalog ref committed in it.
C22_SummaryCoversRefs ==
  /\ \A j \in Recomputations : \A k \in LogOf({"R", "B"}) : k < j
  /\ summary.present = (Recomputations # {})
  /\ summary.present =>
       /\ summary.refs = ListRefs(localRefs, remoteRefs)
       /\ promotedNow \subseteq summary.refs
       /\ \A k \in LogOf({"B"}) :
            stageLog[k].ok => CatalogRefNames[stageLog[k].item] \in summary.refs
       /\ mirroredComponents # <<>> => staged = XmlFile(mirroredComponents)

\* C22 witness: createSummary returned after two catalog refs were committed
\* and the summary was recomputed over them and a promoted LocalRef.
C22_Witness ==
  /\ pc = "repofile"
  /\ summary.present
  /\ promotedNow # {}
  /\ \E k \in LogOf({"B"}) : stageLog[k].ok /\ stageLog[k].item = 2
  /\ {CatalogRefNames[1], CatalogRefNames[2]} \subseteq summary.refs

\* C23: interruption safety. At every point of a pass every LocalRef
\* promoted earlier in it exists, and no step deletes it or changes the
\* commit it points at, other than a later promotion of that same ref, which
\* moves it to the commit that call resolved.
C23_PromotedRefsDurable ==
  /\ [](promotedNow \subseteq DOMAIN localRefs)
  /\ [][\A r \in promotedNow :
          /\ r \in DOMAIN localRefs'
          /\ localRefs'[r] # localRefs[r] =>
               /\ fpPhase = "promote" /\ fpPhase' = "cleanup"
               /\ fpApp = r
               /\ localRefs'[r] = commit]_vars

\* C23 witness: after a ref was promoted, a later call failed at its own
\* promotion, cleanup ran and createSummary committed the catalog refs.
C23_Witness ==
  /\ pc = "repofile"
  /\ promotedNow # {}
  /\ prevCall.outcome = "PromotionFailed"
  /\ LogOf({"B"}) # {}

\* The commands of one kind issued by the current run of initRepo.
Issued(cmd) == {k \in 1..Len(initCmds) : initCmds[k].cmd = cmd}

\* C24: store initialization is idempotent. ostree init is issued only when
\* the objects directory is absent; no remote is ever configured twice; and
\* a run of initRepo on the store a completed run left issues no init, leaves
\* objects and mode as they were and removes no remote; when the commands it
\* runs work, it issues no remote add either and leaves the configured
\* remotes exactly as they were.
C24_InitIdempotent ==
  /\ \A k \in Issued("init") : ~initCmds[k].objects
  /\ \A j \in 1..Len(storeRemotes), k \in 1..Len(storeRemotes) :
       storeRemotes[j] = storeRemotes[k] => j = k
  /\ (initRun >= 2 /\ prevInit.returned) =>
       /\ Issued("init") = {}
       /\ objects = prevInit.objects /\ storeMode = prevInit.mode
       /\ SubSeq(storeRemotes, 1, Len(prevInit.remotes)) = prevInit.remotes
       /\ faults = prevInit.faults =>
            /\ Issued("add") = {}
            /\ storeRemotes = prevInit.remotes

\* C24 witness: a second run of initRepo returned on a store with two
\* remotes that the first run initialized, and no command failed in it.
C24_Witness ==
  /\ initRun = 2
  /\ initPc = "returned"
  /\ prevInit.returned
  /\ faults = prevInit.faults
  /\ Len(storeRemotes) = 2
  /\ objects /\ storeMode = "archive-z2"

\* The first n elements of a list, all of it when it is shorter.
FirstOf(list, n) ==
  [k \in 1..(IF n < Len(list) THEN n ELSE Len(list)) |-> list[k]]

\* C25: the package cap. With max_packages = N > 0 mirrorPackagesLibOnly is
\* handed exactly the first min(N, total) packages in listing order, and with
\* max_packages = 0 all of them; its loop attempts them one by one in that
\* order and no other. index.js processes exactly the first min(3, total)
\* components of a catalog, and every ref it pulls derives from one of them.
C25_PackageCap ==
  /\ libPc # "idle" =>
       LET packages == SelectSeq(mfListed,
                         LAMBDA r : r.kind = 0 /\ r.arch = "x86_64")
       IN  /\ libPackages = (IF mfMax > 0 THEN FirstOf(packages, mfMax)
                             ELSE packages)
           /\ Len(libRuns) = libIdx - 1
           /\ libIdx <= Len(libPackages) + 1
           /\ libPc = "returned" => Len(libRuns) = Len(libPackages)
           /\ libResults.success + libResults.failed + libResults.skipped
                = Len(libRuns)
           /\ \A f \in 1..Len(libResults.failures) :
                \E k \in 1..Len(libRuns) :
                  libResults.failures[f].ref = RefString(libPackages[k])
  /\ xmlCache.present =>
       /\ components = FirstOf(xmlCache.components, 3)
       /\ i <= Len(components) + 1
       /\ \A key \in DOMAIN pullCount : key[2] <= Len(components)
       /\ \A a \in attempted :
            a[2] \in DerivedRefs(FirstOf(xmlCache.components, 3))
       /\ pc = "generate" =>
            attempted = {<<remotes[k], r>> :
                           k \in 1..Len(remotes),
                           r \in DerivedRefs(FirstOf(xmlCache.components, 3))}

\* C25 witness: with max_packages = 2 and three applications listed, the
\* loop returned after attempting two packages.
C25_Witness ==
  /\ mfPc = "mirroring"
  /\ libPc = "returned"
  /\ mfMax = 2
  /\ Len(FilterPackages(mfListed)) = 3
  /\ Len(libRuns) = 2

BeforeWrite ==
  \/ fpPhase \in {"pull", "scan", "known", "revparse"}
  \/ fpPhase = "promote" /\ ~Truthy(commit)

\* Nothing the step finds in refs/mirrors or refs/remotes is removed by it.
NothingRemoved ==
  /\ \A f \in DOMAIN files : f \in DOMAIN files'
  /\ \A r \in DOMAIN remoteRefs : r \in DOMAIN remoteRefs'

\* C26: fetchPackage writes the LocalRef only after the pull succeeded and a
\* non-empty commit was resolved. While the local refs differ from what they
\* were when the call started, a commit was resolved, the store took the
\* write, and the only difference is the call's ref at that commit. A call
\* that ends at a failed pull or with no commit resolved left the local refs
\* as they were; no step before the write creates, overwrites or deletes a
\* local ref, removes a transient file or deletes a remote ref, and a failed
\* pull leaves refs/mirrors and the remote refs untouched.
C26_WritesOnlyWhenResolved ==
  /\ []((fpPhase # "idle" /\ localRefs # refsAtCall) =>
          /\ Truthy(commit) /\ accepted
          /\ fpPhase \in {"cleanup", "cleanupDelete", "done"}
          /\ localRefs = With(refsAtCall, fpApp, commit))
  /\ []((fpPhase = "done" /\ outcome \in {"PullFailed", "ResolutionFailed"}) =>
          localRefs = refsAtCall /\ ~accepted)
  /\ [][BeforeWrite => (localRefs' = localRefs /\ NothingRemoved)]_vars
  /\ [][(fpPhase = "pull" /\ outcome' = "PullFailed") =>
          (files' = files /\ remoteRefs' = remoteRefs /\ mirrorsDir' = mirrorsDir)]_vars

\* C26 witness: a call ended with no commit resolved; the damaged file its
\* pull deposited is still there, and so is a ref promoted before it.
C26_Witness ==
  /\ fpPhase = "done"
  /\ outcome = "ResolutionFailed"
  /\ files # <<>>
  /\ refsAtCall # <<>>
  /\ localRefs = refsAtCall

\* C27: cleanup ordering. cleanupMirroredRefs runs only after the forced
\* create of the call's LocalRef succeeded: a transient file or a remote ref
\* is removed only by a cleanup step of a call whose ref write the store
\* took, and a call whose promotion failed ends there, with refs/mirrors and
\* the remote refs as resolution found them.
C27_CleanupAfterPromotion ==
  /\ [](fpPhase \in {"cleanup", "cleanupDelete"} =>
          accepted /\ HasLocalRef(fpApp, commit))
  /\ [][~NothingRemoved =>
          /\ fpPhase \in {"cleanup", "cleanupDelete"}
          /\ accepted /\ HasLocalRef(fpApp, commit)]_vars
  /\ [][(fpPhase = "promote" /\ ~accepted') =>
          /\ fpPhase' = "done"
          /\ files' = files /\ remoteRefs' = remoteRefs]_vars

\* C27 witness: the promotion failed and the ref file the pull deposited
\* still holds the commit.
C27_Witness ==
  /\ fpPhase = "done"
  /\ outcome = "PromotionFailed"
  /\ \E f \in DOMAIN files : files[f].isFile /\ Trim(files[f].data) = commit

\* C28: app and runtime are handled independently. When the script reaches
\* the end of a component's block, the runtime was fetched exactly when the
\* bundle names one and the app exactly when the bundle type is flatpak,
\* whatever became of the app fetch; every fetch was issued for a component
\* with bundle information; and only components of type flatpak are in the
\* mirrored set.
C28_IndependentAppAndRuntime ==
  /\ pc = "push" =>
       /\ components[i].bundle # NoBundle
       /\ (components[i].bundle.runtime # "") =
            (<<remoteIdx, i, "runtime">> \in DOMAIN pullCount)
       /\ (components[i].bundle.type = "flatpak") =
            (<<remoteIdx, i, "app">> \in DOMAIN pullCount)
  /\ \A key \in DOMAIN pullCount :
       LET bundle == xmlCache.components[key[2]].bundle
       IN  /\ bundle # NoBundle
           /\ key[3] = "app" => bundle.type = "flatpak"
           /\ key[3] = "runtime" => bundle.runtime # ""
  /\ \A k \in 1..Len(mirroredComponents) :
       mirroredComponents[k].bundle.type = "flatpak"

\* C28 witness: a component whose bundle is not a flatpak is at the end of
\* its block: no app fetch was made, its runtime was fetched and promoted,
\* and the component does not enter the mirrored set.
C28_Witness ==
  /\ pc = "push"
  /\ components[i].bundle.type # "flatpak"
  /\ prevCall.outcome = "Promoted"
  /\ prevCall.app = <<"runtime/", components[i].bundle.runtime>>
  /\ ~appFetched

\* C30: resolution returns the commit of the requested ref only. Whatever
\* refs/mirrors holds, a commit the scan of refs/mirrors yields for remote R
\* and ref P is a commit of P on R: the content of a file the pull from R
\* deposited for P.
C30_ResolvesOwnRef ==
  \A j \in 1..Len(probes) :
    (probes[j].strategy = 1 /\ Truthy(probes[j].yield)) =>
      \E v \in 1..MaxVersions :
        probes[j].yield = <<"commit:", fpRepo, ":", VersionTag(v), ":">> \o fpApp

\* C31: after a promotion and a cleanup in which nothing failed, no file is
\* left under refs/mirrors that the resolution scan would match for the
\* call's ref; the file the commit was read from is gone wherever it was.
C31_NoTransientLeft ==
  (fpPhase = "done" /\ outcome = "Promoted" /\ faults = 0) =>
    FindFilesRecursive(files, fpApp) = {}

\* C32: each remote is handed its own catalog. Whatever fetchAppstream
\* resolved to for a remote, under the for-of loop or under forEach(async),
\* is the catalog that remote's URL serves: not another remote's, and not
\* one an earlier run left in /tmp.
C32_OwnCatalog ==
  \A r \in DOMAIN appstream_data :
    appstream_data[r].present => appstream_data[r].components = served[r]

\* C33: the catalog reconciliation commits is the mirrored set of the
\* current pass. Whenever a commit to a CatalogRef succeeded, the catalog
\* in appstream/x86_64/active that it committed holds exactly the
\* components of mirroredComponents; after a pass that mirrored nothing it
\* holds none.
C33_CommittedIsMirrored ==
  \A k \in 1..Len(stageLog) :
    (stageLog[k].stage = "B" /\ stageLog[k].ok) =>
      staged.components = mirroredComponents

\* C34: the mirrored set has no duplicates. Whatever the remotes and their
\* catalogs are, no component id appears twice in mirroredComponents, and so
\* none appears twice in the catalog generateAppstream writes from it.
C34_NoDuplicates ==
  /\ \A j, k \in 1..Len(mirroredComponents) :
       mirroredComponents[j].id = mirroredComponents[k].id => j = k
  /\ \A j, k \in 1..Len(staged.components) :
       staged.components[j].id = staged.components[k].id => j = k

\* C35: after initRepo returned, with no command of it failing, every
\* remote of config.repo_remotes is configured in the store under exactly
\* its name, also when the name of another configured remote contains it.
C35_AllRemotesConfigured ==
  (initPc = "returned" /\ faults = 0) =>
    \A k \in 1..Len(remotes) :
      \E j \in 1..Len(storeRemotes) : storeRemotes[j] = remotes[k]

\* C36: per-package accounting in mirrorPackagesLibOnly. Whatever the
\* transactions do, the loop visits the packages one by one and never stops
\* early: after each visit the three counters add up to the number of
\* packages visited and failures has one entry per package counted as
\* failed or skipped, naming packages of the list in the list's order; on
\* return every package was visited once, so the counters add up to the
\* number of packages.
C36_PerPackageAccounting ==
  LET r == libResults
      visited == libIdx - 1
  IN  /\ libPc \in {"loop", "delay", "returned"} =>
           /\ r.success + r.failed + r.skipped = visited
           /\ Len(libRuns) = visited
           /\ Len(r.failures) = r.failed + r.skipped
           /\ \A f \in 1..Len(r.failures) :
                \E k \in 1..visited :
                  /\ r.failures[f].ref = RefString(libPackages[k])
                  /\ f <= k
                  /\ f < Len(r.failures) =>
                       \E n \in (k + 1)..visited :
                         r.failures[f + 1].ref = RefString(libPackages[n])
      /\ libPc = "returned" =>
           /\ visited = Len(libPackages)
           /\ r.success + r.failed + r.skipped = Len(libPackages)

\* C36 witness: the loop returned after a full list in which one package
\* succeeded, one failed and one hit the binding issue.
C36_Witness ==
  /\ libPc = "returned"
  /\ Len(libPackages) = MaxPackages
  /\ libResults.success >= 1
  /\ libResults.failed >= 1
  /\ libResults.skipped >= 1
  /\ Len(libResults.failures) = libResults.failed + libResults.skipped

\* C37: addRemote applies one GPG policy on both of its paths. When the
\* bindings built the Remote object with a gpg-verify setting and then
\* raised the binding issue, the config file the manual fallback writes has
\* the same gpg-verify as that object; with options.noGpgVerify unset
\* verification is off on both.
C37_OneGpgPolicy ==
  (arConfig.via = "manual" /\ arRemote.made /\ arRemote.gpgVerify # "default") =>
    arConfig.gpgVerify = arRemote.gpgVerify

=============================================================================
